---- MODULE Spec2Model ----
(***************************************************************************)
(* QemuClaw: the VM supervisor (vm-manager.js), the QMP control-channel    *)
(* client (qmp-client.js) and the serial-console client with its login     *)
(* automation (terminal-manager.js), as state machines.                    *)
(*                                                                         *)
(* Five specifications share the variables:                                *)
(*   SpecQMP       one session of the control-channel client, with commands*)
(*   SpecQMPDial   connect() of that client with retries and reconnects    *)
(*   SpecTerminal  the console client and autoLogin against a guest        *)
(*   SpecVM        one start(), the stop() calls after it, both clients    *)
(*   SpecVMProc    overlapping start() and stop() calls and the processes  *)
(***************************************************************************)
EXTENDS Integers, Sequences, FiniteSets, TLC

(***************************************************************************)
(* Bounds of the model.                                                    *)
(***************************************************************************)
MaxCalls == 2

MaxMsgs == 3

MaxInFlight == 2

MaxConns == 2

MaxPieces == 3

MaxStarts == 2

MaxStops == 1

VARIABLES
    qmp,        \* QMPClient fields: socket, ready, buffer, commandId, pendingCommands
    qconn,      \* closure state of the current _tryConnect/_setupHandlers
    qcall,      \* connect() in progress: promise states, attempt, retries
    calls,      \* one entry per execute() that was given an id
    qIn,        \* records the server has written and the client has not read
    qOut,       \* every line the client wrote, in order
    qhist       \* counters of emitted events and of what the environment did

qmpVars == <<qmp, qconn, qcall, calls, qIn, qOut, qhist>>

VARIABLES
    terminal,   \* TerminalManager fields: socket, connected, loggedIn, loginState, cols, rows
    tconn,      \* closure state of the current _tryConnect of the console
    tcall,      \* connect() of the console in progress
    login,      \* closure state of the autoLogin() in progress
    tIn,        \* console bytes the guest has printed and the client has not read
    tOut,       \* what the client wrote to the console, in order
    thist       \* what the guest printed, and what autoLogin emitted

termVars == <<terminal, tconn, tcall, login, tIn, tOut, thist>>

VARIABLES
    vm,         \* VMManager fields: vmProcess, isRunning, serialPort, qmpPort
    procs,      \* the hypervisor processes spawned so far
    starts,     \* the start() calls made so far and where each one is
    stops,      \* the stop() calls that went past the running check
    stopReturns \* how many stop() calls returned at the running check

vmVars == <<vm, procs, starts, stops, stopReturns>>

VARIABLES
    health      \* the waitForOpenClaw() call: promise, interval, polls in flight, answers

healthVars == <<health>>

VARIABLES
    dl,        \* the downloadAndExtractVM() call: where it is, what it chose and did
    disk,       \* the destination directory and the scratch directory in it
    progress    \* the last snapshot given to onProgress, and how many were given

imageVars == <<dl, disk, progress>>

vars == <<qmpVars, termVars, vmVars, healthVars, imageVars>>

\* An action of one client leaves the other client and the supervisor alone.
QmpOnly == UNCHANGED <<termVars, vmVars, healthVars, imageVars>>

TermOnly == UNCHANGED <<qmpVars, vmVars, healthVars, imageVars>>

\* An action of start(), of a stop() past its running check, or of a process.
VmFrame == UNCHANGED <<stopReturns, healthVars, imageVars>>

----------------------------------------------------------------------------
(***************************************************************************)
(* QMPClient (qmp-client.js)                                               *)
(***************************************************************************)

\* One newline-terminated record as the data handler classifies it.
\* id 0 stands for a record without an id field.
Rec(t, id) == [t |-> t, id |-> id]

Greeting == Rec("QMP", 0)

ServerRecords ==
    {Greeting, Rec("event", 0)}
        \cup {Rec("return", i) : i \in 0..MaxCalls}
        \cup {Rec("error", i) : i \in 0..MaxCalls}

\* constructor()
QmpInit ==
    [socket |-> "null", ready |-> FALSE, buffer |-> "", commandId |-> 0,
     pendingCommands |-> {}]

\* No socket yet: the closure variables of _tryConnect and _setupHandlers.
NoConn ==
    [resolved |-> FALSE, handlers |-> FALSE, negotiated |-> FALSE,
     onReady |-> FALSE, onError |-> FALSE, idleTimer |-> FALSE,
     closeQueued |-> FALSE, peerClosed |-> FALSE, greeted |-> FALSE,
     id |-> 0]

NoCall == [connectP |-> "none", tryP |-> "none", attempt |-> 0, retries |-> 0]

NewCall(id, cmd) ==
    [id |-> id, cmd |-> cmd, outcome |-> "pending", settles |-> 0,
     timer |-> "armed"]

\* resolve()/reject() of an execute() promise: the first one decides the
\* outcome, every invocation is counted.
Settle(call, how) ==
    [call EXCEPT !.outcome = IF call.outcome = "pending" THEN how ELSE @,
                 !.settles = @ + 1]

\* resolve()/reject() of the _tryConnect promise and what connect() does with
\* it: return on success, throw after the last attempt, else sleep and retry.
SettleTry(qc, how) ==
    IF qc.tryP # "pending" THEN qc
    ELSE IF how = "resolved"
         THEN [qc EXCEPT !.tryP = "resolved", !.connectP = "resolved"]
         ELSE [qc EXCEPT !.tryP = "rejected",
                         !.connectP = IF qc.attempt = qc.retries
                                      THEN "rejected" ELSE @]

\* The state the data handler works on.
Client == [qmp |-> qmp, qconn |-> qconn, qcall |-> qcall, calls |-> calls,
           qOut |-> qOut, qhist |-> qhist]

\* HandleLine without the `!negotiated` test of the capabilities branch.
HandleLineRenegotiate(st, msg) ==
    IF msg.t = "junk"
    THEN st
    ELSE IF msg.t = "QMP"
    THEN [st EXCEPT !.qOut = Append(@, "qmp_capabilities"),
                    !.qconn.greeted = TRUE]
    ELSE IF msg.t = "return"
    THEN [st EXCEPT !.qconn.negotiated = TRUE,
                    !.qmp.ready = TRUE,
                    !.qhist.readyEmits = @ + 1,
                    !.qhist.onReadyCalls =
                        IF st.qconn.onReady THEN @ + 1 ELSE @,
                    !.qcall = IF st.qconn.onReady
                              THEN SettleTry(@, "resolved") ELSE @,
                    !.qconn.onReady = FALSE]
    ELSE IF msg.t = "event"
    THEN st
    ELSE IF msg.id # 0 /\ msg.id \in st.qmp.pendingCommands
    THEN [st EXCEPT !.qmp.pendingCommands = @ \ {msg.id},
                    !.calls[msg.id] =
                        Settle(@, IF msg.t = "error" THEN "error"
                                  ELSE "resolved")]
    ELSE st

\* HandleLine with a response given to the oldest pending command instead
\* of the one whose id it carries.
HandleLineOldest(st, msg) ==
    IF msg.t = "junk"
    THEN st
    ELSE IF msg.t = "QMP"
    THEN [st EXCEPT !.qOut = Append(@, "qmp_capabilities"),
                    !.qconn.greeted = TRUE]
    ELSE IF msg.t = "return" /\ ~st.qconn.negotiated
    THEN [st EXCEPT !.qconn.negotiated = TRUE,
                    !.qmp.ready = TRUE,
                    !.qhist.readyEmits = @ + 1,
                    !.qhist.onReadyCalls =
                        IF st.qconn.onReady THEN @ + 1 ELSE @,
                    !.qcall = IF st.qconn.onReady
                              THEN SettleTry(@, "resolved") ELSE @,
                    !.qconn.onReady = FALSE]
    ELSE IF msg.t = "event"
    THEN st
    ELSE IF msg.id # 0 /\ st.qmp.pendingCommands # {}
    THEN LET old == CHOOSE i \in st.qmp.pendingCommands :
                        \A j \in st.qmp.pendingCommands : i <= j
         IN [st EXCEPT !.qmp.pendingCommands = @ \ {old},
                       !.calls[old] =
                           Settle(@, IF msg.t = "error" THEN "error"
                                     ELSE "resolved")]
    ELSE st

\* Body of the for loop of the 'data' handler, for one line.
HandleLine(st, msg) ==
    IF msg.t = "junk"
    THEN st
    ELSE IF msg.t = "QMP"
    THEN [st EXCEPT !.qOut = Append(@, "qmp_capabilities"),
                    !.qconn.greeted = TRUE]
    ELSE IF msg.t = "return" /\ ~st.qconn.negotiated
    THEN [st EXCEPT !.qconn.negotiated = TRUE,
                    !.qmp.ready = TRUE,
                    !.qhist.readyEmits = @ + 1,
                    !.qhist.onReadyCalls =
                        IF st.qconn.onReady THEN @ + 1 ELSE @,
                    !.qcall = IF st.qconn.onReady
                              THEN SettleTry(@, "resolved") ELSE @,
                    !.qconn.onReady = FALSE]
    ELSE IF msg.t = "event"
    THEN st
    ELSE IF msg.id # 0 /\ msg.id \in st.qmp.pendingCommands
    THEN [st EXCEPT !.qmp.pendingCommands = @ \ {msg.id},
                    !.calls[msg.id] =
                        Settle(@, IF msg.t = "error" THEN "error"
                                  ELSE "resolved")]
    ELSE st

RECURSIVE HandleLines(_, _)
HandleLines(st, lines) ==
    IF lines = <<>> THEN st
    ELSE HandleLines(HandleLine(st, Head(lines)), Tail(lines))

\* What the server has been seen to send on this connection: the greeting,
\* and the unkeyed success records that followed it.
RECURSIVE Observe(_, _)
Observe(h, lines) ==
    IF lines = <<>> THEN h
    ELSE LET m == Head(lines)
             h1 == IF m = Greeting THEN [h EXCEPT !.greeted = TRUE]
                   ELSE IF m = Rec("return", 0) /\ h.greeted
                   THEN [h EXCEPT !.acks = @ + 1]
                   ELSE h
         IN Observe(h1, Tail(lines))

\* The 'data' handler on the complete lines of one chunk.
Deliver(st, lines) ==
    [HandleLines(st, lines) EXCEPT !.qhist = Observe(@, lines)]

SetClient(st) ==
    /\ qmp' = st.qmp
    /\ qconn' = st.qconn
    /\ qcall' = st.qcall
    /\ calls' = st.calls
    /\ qOut' = st.qOut
    /\ qhist' = st.qhist

\* _tryConnect: new net.Socket(), connect(), setTimeout(5000).
TryConnect(qc) ==
    /\ qmp' = [qmp EXCEPT !.socket = "connecting"]
    /\ qconn' = [NoConn EXCEPT !.id = qconn.id + 1, !.idleTimer = TRUE]
    /\ qcall' = qc
    /\ qIn' = <<>>
    /\ qhist' = [qhist EXCEPT !.readyEmits = 0, !.onReadyCalls = 0,
                              !.greeted = FALSE, !.acks = 0]

\* connect(port, host, retries, retryDelay), first attempt. The caller dials
\* only when no socket of this client is alive.
QConnect(r) ==
    /\ qcall.connectP # "pending"
    /\ qmp.socket \in {"null", "closed"}
    /\ ~qconn.closeQueued
    /\ qconn.id < MaxConns
    /\ TryConnect([connectP |-> "pending", tryP |-> "pending",
                   attempt |-> 1, retries |-> r])
    /\ UNCHANGED <<calls, qOut>>
    /\ QmpOnly

\* connect(): the catch branch slept retryDelay; next attempt.
QRetry ==
    /\ qcall.connectP = "pending"
    /\ qcall.tryP = "rejected"
    /\ qcall.attempt < qcall.retries
    /\ ~qconn.closeQueued
    /\ qconn.id < MaxConns
    /\ TryConnect([qcall EXCEPT !.tryP = "pending", !.attempt = @ + 1])
    /\ UNCHANGED <<calls, qOut>>
    /\ QmpOnly

\* _tryConnect: 'error' (onError) or the 5 s timeout before the TCP
\* connection is established: destroy the socket and reject.
QDialFail ==
    /\ qmp.socket = "connecting"
    /\ ~qconn.resolved
    /\ qmp' = [qmp EXCEPT !.socket = "closed"]
    /\ qconn' = [qconn EXCEPT !.resolved = TRUE, !.idleTimer = FALSE]
    /\ qcall' = SettleTry(qcall, "rejected")
    /\ UNCHANGED <<calls, qIn, qOut, qhist>>
    /\ QmpOnly

\* _tryConnect: the connect callback; _setupHandlers(resolve, reject).
\* this.buffer is not reset: what an earlier connection left in it stays.
QConnected ==
    /\ qmp.socket = "connecting"
    /\ qmp' = [qmp EXCEPT !.socket = "open",
                          !.buffer = IF @ = "" THEN "" ELSE "stale"]
    /\ qconn' = [qconn EXCEPT !.handlers = TRUE, !.onReady = TRUE,
                              !.onError = TRUE]
    /\ qIn' = <<>>
    /\ UNCHANGED <<qcall, calls, qOut, qhist>>
    /\ QmpOnly

\* The server writes one record.
QServerSend(m) ==
    /\ qmp.socket = "open"
    /\ ~qconn.closeQueued /\ ~qconn.peerClosed
    /\ Len(qIn) < MaxInFlight
    /\ qhist.sent < MaxMsgs
    /\ qIn' = Append(qIn, m)
    /\ qhist' = [qhist EXCEPT !.sent = @ + 1]
    /\ UNCHANGED <<qmp, qconn, qcall, calls, qOut>>
    /\ QmpOnly

\* The lines one chunk completes: k records of the stream; a fragment of an
\* earlier connection left in this.buffer makes the first of them unparsable.
ChunkLines(k) ==
    IF k = 0 THEN <<>>
    ELSE IF qmp.buffer = "stale"
         THEN <<Rec("junk", 0)>> \o SubSeq(qIn, 2, k)
         ELSE SubSeq(qIn, 1, k)

\* What lines.pop() leaves in this.buffer after the chunk.
ChunkRest(k, frag) ==
    IF frag THEN "frag"
    ELSE IF k = 0 THEN qmp.buffer ELSE ""

\* socket 'data' handler, for a chunk that ends k records and, if frag, also
\* carries the beginning of the next one.
QOnData(k, frag) ==
    /\ qmp.socket = "open"
    /\ qconn.handlers /\ ~qconn.closeQueued
    /\ k <= Len(qIn)
    /\ frag => k < Len(qIn)
    /\ k > 0 \/ (frag /\ qmp.buffer = "")
    /\ LET st == Deliver(Client, ChunkLines(k))
           buf == IF k = 0 /\ qmp.buffer = "stale" THEN "stale"
                  ELSE ChunkRest(k, frag)
       IN SetClient([st EXCEPT !.qmp.buffer = buf])
    /\ qIn' = SubSeq(qIn, k + 1, Len(qIn))
    /\ QmpOnly

\* Execute with the command id taken before the ready test.
ExecuteIdFirst(st, cmd) ==
    LET id == st.qmp.commandId + 1 IN
    IF ~st.qmp.ready
    THEN [st EXCEPT !.qhist.notReady = TRUE, !.qmp.commandId = id]
    ELSE [st EXCEPT !.qmp.commandId = id,
                    !.qmp.pendingCommands = @ \cup {id},
                    !.qOut = Append(@, cmd),
                    !.calls = Append(@, NewCall(id, cmd))]

\* execute(command, args).
Execute(st, cmd) ==
    IF ~st.qmp.ready
    THEN [st EXCEPT !.qhist.notReady = TRUE]
    ELSE LET id == st.qmp.commandId + 1 IN
         [st EXCEPT !.qmp.commandId = id,
                    !.qmp.pendingCommands = @ \cup {id},
                    !.qOut = Append(@, cmd),
                    !.calls = Append(@, NewCall(id, cmd))]

QExecute ==
    /\ qmp.commandId < MaxCalls
    /\ SetClient(Execute(Client, "query-status"))
    /\ UNCHANGED qIn
    /\ QmpOnly

\* execute(): the 10 s setTimeout callback of call c.
CmdTimeout(st, c) ==
    IF c \in st.qmp.pendingCommands
    THEN [st EXCEPT !.qmp.pendingCommands = @ \ {c},
                    !.calls[c] = Settle([@ EXCEPT !.timer = "fired"], "timeout")]
    ELSE [st EXCEPT !.calls[c].timer = "fired"]

QCmdTimeout(c) ==
    /\ c \in 1..Len(calls)
    /\ calls[c].timer = "armed"
    /\ SetClient(CmdTimeout(Client, c))
    /\ UNCHANGED qIn
    /\ QmpOnly

\* socket 'error' handler (the socket then closes). emit('error') throws when
\* the client has no 'error' listener, and the rest of the handler is skipped.
QSocketError(listener) ==
    /\ qmp.socket = "open"
    /\ qconn.handlers /\ ~qconn.closeQueued
    /\ qmp' = [qmp EXCEPT !.ready = FALSE]
    /\ qconn' = [qconn EXCEPT !.closeQueued = TRUE, !.idleTimer = FALSE,
                              !.onError = IF listener THEN FALSE ELSE @]
    /\ qcall' = IF listener /\ qconn.onError
                THEN SettleTry(qcall, "rejected") ELSE qcall
    /\ qIn' = <<>>
    /\ UNCHANGED <<calls, qOut, qhist>>
    /\ QmpOnly

\* The server closes the connection; what it wrote before is still read.
QPeerClose ==
    /\ qmp.socket = "open"
    /\ qconn.handlers /\ ~qconn.closeQueued /\ ~qconn.peerClosed
    /\ qconn' = [qconn EXCEPT !.peerClosed = TRUE]
    /\ UNCHANGED <<qmp, qcall, calls, qIn, qOut, qhist>>
    /\ QmpOnly

RECURSIVE RejectAll(_, _)
RejectAll(cs, ids) ==
    IF ids = {} THEN cs
    ELSE LET id == CHOOSE i \in ids : TRUE IN
         RejectAll([cs EXCEPT ![id] = Settle(@, "closed")], ids \ {id})

\* socket 'close' handler.
OnQmpClose(st) ==
    [st EXCEPT !.qmp.ready = FALSE,
               !.qmp.pendingCommands = {},
               !.qmp.socket = IF @ = "null" THEN "null" ELSE "closed",
               !.calls = RejectAll(@, st.qmp.pendingCommands),
               !.qconn.closeQueued = FALSE,
               !.qconn.handlers = FALSE,
               !.qconn.idleTimer = FALSE]

QOnClose ==
    /\ qconn.handlers
    /\ \/ qconn.closeQueued
       \/ qmp.socket = "open" /\ qconn.peerClosed /\ qIn = <<>>
    /\ SetClient(OnQmpClose(Client))
    /\ qIn' = <<>>
    /\ QmpOnly

\* _tryConnect: the socket 'timeout' callback (5 s without traffic).
\* `resolved` is never set on the success path of this client.
QIdleTimeout ==
    /\ qmp.socket = "open"
    /\ qconn.idleTimer /\ ~qconn.closeQueued
    /\ qconn' = [qconn EXCEPT !.idleTimer = FALSE,
                              !.resolved = TRUE,
                              !.closeQueued = IF qconn.resolved THEN @ ELSE TRUE]
    /\ qcall' = IF qconn.resolved THEN qcall ELSE SettleTry(qcall, "rejected")
    /\ qIn' = IF qconn.resolved THEN qIn ELSE <<>>
    /\ UNCHANGED <<qmp, calls, qOut, qhist>>
    /\ QmpOnly

\* disconnect().
Disconnect(st) ==
    [st EXCEPT !.qmp.ready = FALSE,
               !.qmp.socket = "null",
               !.qmp.pendingCommands = {},
               !.qconn.closeQueued =
                   IF st.qmp.socket = "open" THEN TRUE ELSE @,
               !.qconn.idleTimer = FALSE]

QDisconnect ==
    /\ SetClient(Disconnect(Client))
    /\ qIn' = <<>>
    /\ QmpOnly

\* One session: a single connect() with one dial, then commands.
QmpSessionNext ==
    \/ qconn.id = 0 /\ QConnect(1)
    \/ QDialFail
    \/ QConnected
    \/ \E m \in ServerRecords : QServerSend(m)
    \/ \E k \in 0..MaxInFlight, frag \in BOOLEAN : QOnData(k, frag)
    \/ QExecute
    \/ \E c \in 1..MaxCalls : QCmdTimeout(c)
    \/ \E l \in BOOLEAN : QSocketError(l)
    \/ QPeerClose
    \/ QOnClose
    \/ QIdleTimeout
    \/ QDisconnect

\* Dialling: connect() with its retries, and connecting again after the
\* session ended; no commands.
QmpDialNext ==
    \/ \E r \in 1..MaxConns : QConnect(r)
    \/ QRetry
    \/ QDialFail
    \/ QConnected
    \/ \E m \in ServerRecords : QServerSend(m)
    \/ \E k \in 0..MaxInFlight, frag \in BOOLEAN : QOnData(k, frag)
    \/ \E l \in BOOLEAN : QSocketError(l)
    \/ QPeerClose
    \/ QOnClose
    \/ QIdleTimeout
    \/ QDisconnect

QmpInitState ==
    /\ qmp = QmpInit
    /\ qconn = NoConn
    /\ qcall = NoCall
    /\ calls = <<>>
    /\ qIn = <<>>
    /\ qOut = <<>>
    /\ qhist = [sent |-> 0, readyEmits |-> 0, onReadyCalls |-> 0,
                notReady |-> FALSE, greeted |-> FALSE, acks |-> 0]


----------------------------------------------------------------------------
(***************************************************************************)
(* TerminalManager (terminal-manager.js)                                   *)
(*                                                                         *)
(* Console text is kept run-length encoded: a sequence of runs [c, n], n   *)
(* copies of the character c, so that a boot transcript of thousands of    *)
(* characters is a short value. The buffer of autoLogin is normalised      *)
(* (adjacent runs differ in c); text on the wire need not be, and a chunk  *)
(* may end after any of its runs.                                          *)
(***************************************************************************)
Run(c, n) == [c |-> c, n |-> n]

Str(chars) == [i \in 1..Len(chars) |-> Run(chars[i], 1)]

LoginPrompt == Str(<<"l", "o", "g", "i", "n", ":">>)

PasswordPrompt == Str(<<"a", "s", "s", "w", "o", "r", "d", ":">>)

Dollar == Str(<<"$">>)

Hash == Str(<<"#">>)

TildeBracket == Str(<<"~", "]">>)

ShellPrompts == {Dollar, Hash, TildeBracket}

\* Sizes of the runs of other text the guest prints.
NoiseLens == {1, 4097}

Pieces ==
    {LoginPrompt, PasswordPrompt, Dollar, Hash, TildeBracket}
        \cup {<<Run("x", n)>> : n \in NoiseLens}

\* buffer.length
RECURSIVE StrLen(_)
StrLen(rs) == IF rs = <<>> THEN 0 ELSE Head(rs).n + StrLen(Tail(rs))

\* buffer += data, one run at a time.
AppendRun(buf, r) ==
    IF buf # <<>> /\ buf[Len(buf)].c = r.c
    THEN [buf EXCEPT ![Len(buf)].n = @ + r.n]
    ELSE Append(buf, r)

RECURSIVE Concat(_, _)
Concat(buf, rs) ==
    IF rs = <<>> THEN buf ELSE Concat(AppendRun(buf, Head(rs)), Tail(rs))

\* buffer.slice(-m): the last m characters.
RECURSIVE SliceTail(_, _)
SliceTail(buf, m) ==
    IF m <= 0 \/ buf = <<>> THEN <<>>
    ELSE LET last == buf[Len(buf)] IN
         IF last.n >= m THEN <<Run(last.c, m)>>
         ELSE Append(SliceTail(SubSeq(buf, 1, Len(buf) - 1), m - last.n), last)

\* The normalised form of a text.
Norm(rs) == Concat(<<>>, rs)

\* buffer.includes(pattern): the runs of the pattern occur at run i of the
\* buffer; inner runs agree exactly, the outer ones may be longer in the buffer.
MatchAt(buf, pat, i) ==
    /\ i + Len(pat) - 1 <= Len(buf)
    /\ \A j \in 1..Len(pat) :
         /\ buf[i + j - 1].c = pat[j].c
         /\ IF j = 1 \/ j = Len(pat)
            THEN buf[i + j - 1].n >= pat[j].n
            ELSE buf[i + j - 1].n = pat[j].n

Includes(buf, pattern) ==
    \E i \in 1..Len(buf) : MatchAt(buf, Norm(pattern), i)

BufCap == 4096

BufKeep == 2048

\* Trim with the comparison made against the sum of the two sizes.
TrimLate(buf) ==
    IF StrLen(buf) > BufCap + BufKeep THEN SliceTail(buf, BufKeep) ELSE buf

\* autoLogin onData: if (buffer.length > 4096) buffer = buffer.slice(-2048)
Trim(buf) == IF StrLen(buf) > BufCap THEN SliceTail(buf, BufKeep) ELSE buf

\* constructor()
TerminalInit ==
    [socket |-> "null", connected |-> FALSE, loggedIn |-> FALSE,
     loginState |-> "idle", cols |-> 80, rows |-> 24]

NoTConn == [resolved |-> FALSE, handlers |-> FALSE, closeQueued |-> FALSE,
            peerClosed |-> FALSE, id |-> 0]

\* No autoLogin() in progress.
NoLogin ==
    [promise |-> "none", listening |-> FALSE, buffer |-> <<>>,
     nudgeInterval |-> FALSE, sttyTimer |-> FALSE, readyTimer |-> FALSE]

\* The state the console handlers work on.
Console == [terminal |-> terminal, tconn |-> tconn, tcall |-> tcall,
            login |-> login, tOut |-> tOut, thist |-> thist]

SetConsole(st) ==
    /\ terminal' = st.terminal
    /\ tconn' = st.tconn
    /\ tcall' = st.tcall
    /\ login' = st.login
    /\ tOut' = st.tOut
    /\ thist' = st.thist

\* emit('login-status', stage, ...)
EmitStatus(st, stage) == [st EXCEPT !.thist.status = Append(@, stage)]

\* autoLogin: cleanup()
LoginCleanup(st) ==
    [st EXCEPT !.login.nudgeInterval = FALSE, !.login.listening = FALSE]

\* autoLogin: onData(data)
LoginOnData(st, data) ==
    LET buf == Trim(Concat(st.login.buffer, data))
        s1 == [st EXCEPT !.login.buffer = buf]
    IN
    IF s1.terminal.loginState = "waiting_login" /\ Includes(buf, LoginPrompt)
    THEN [EmitStatus(s1, "login_prompt") EXCEPT
              !.login.buffer = <<>>,
              !.tOut = Append(@, "username"),
              !.terminal.loginState = "waiting_password"]
    ELSE IF s1.terminal.loginState = "waiting_password"
            /\ Includes(buf, PasswordPrompt)
    THEN [EmitStatus(s1, "authenticating") EXCEPT
              !.login.buffer = <<>>,
              !.tOut = Append(@, "password"),
              !.terminal.loginState = "waiting_shell"]
    ELSE IF s1.terminal.loginState = "waiting_shell"
            /\ \E sp \in ShellPrompts : Includes(buf, sp)
    THEN [EmitStatus(s1, "configuring") EXCEPT
              !.login.buffer = <<>>,
              !.tOut = Append(@, "export TERM"),
              !.terminal.loginState = "configuring",
              !.login.sttyTimer = TRUE]
    ELSE s1

\* _tryConnect of the console: new net.Socket(), connect(), setTimeout(5000).
TTryConnect(tc) ==
    /\ terminal' = [terminal EXCEPT !.socket = "connecting"]
    /\ tconn' = [NoTConn EXCEPT !.id = tconn.id + 1]
    /\ tcall' = tc
    /\ tIn' = <<>>

\* connect(port, host, retries, retryDelay), first attempt.
TConnect(r) ==
    /\ tcall.connectP # "pending"
    /\ terminal.socket \in {"null", "closed"}
    /\ ~tconn.closeQueued
    /\ tconn.id < MaxConns
    /\ TTryConnect([connectP |-> "pending", tryP |-> "pending",
                    attempt |-> 1, retries |-> r])
    /\ UNCHANGED <<login, tOut, thist>>
    /\ TermOnly

\* connect(): the catch branch slept retryDelay; next attempt.
TRetry ==
    /\ tcall.connectP = "pending"
    /\ tcall.tryP = "rejected"
    /\ tcall.attempt < tcall.retries
    /\ ~tconn.closeQueued
    /\ tconn.id < MaxConns
    /\ TTryConnect([tcall EXCEPT !.tryP = "pending", !.attempt = @ + 1])
    /\ UNCHANGED <<login, tOut, thist>>
    /\ TermOnly

\* _tryConnect: 'error' or the 5 s timeout before the connection is made.
TDialFail ==
    /\ terminal.socket = "connecting"
    /\ ~tconn.resolved
    /\ terminal' = [terminal EXCEPT !.socket = "closed"]
    /\ tconn' = [tconn EXCEPT !.resolved = TRUE]
    /\ tcall' = SettleTry(tcall, "rejected")
    /\ UNCHANGED <<login, tIn, tOut, thist>>
    /\ TermOnly

\* _tryConnect: the connect callback.
TConnected ==
    /\ terminal.socket = "connecting"
    /\ terminal' = [terminal EXCEPT !.socket = "open", !.connected = TRUE]
    /\ tconn' = [tconn EXCEPT !.resolved = TRUE, !.handlers = TRUE]
    /\ tcall' = SettleTry(tcall, "resolved")
    /\ tIn' = <<>>
    /\ UNCHANGED <<login, tOut, thist>>
    /\ TermOnly

\* autoLogin(username, password).
AutoLogin(st) ==
    IF ~st.terminal.connected
    THEN [st EXCEPT !.login.promise = "rejected"]
    ELSE [EmitStatus(st, "waiting_boot") EXCEPT
              !.terminal.loginState = "waiting_login",
              !.login = [promise |-> "pending", listening |-> TRUE,
                         buffer |-> <<>>, nudgeInterval |-> TRUE,
                         sttyTimer |-> FALSE, readyTimer |-> FALSE],
              !.thist.status = <<"waiting_boot">>]

TAutoLogin ==
    /\ login.promise = "none"
    /\ SetConsole(AutoLogin(Console))
    /\ UNCHANGED tIn
    /\ TermOnly

\* How many of the prompts login:, assword:, shell prompt the guest has
\* printed in that order, after it prints one more piece.
Presented(n, piece) ==
    IF n = 0 /\ piece = LoginPrompt THEN 1
    ELSE IF n = 1 /\ piece = PasswordPrompt THEN 2
    ELSE IF n = 2 /\ piece \in ShellPrompts THEN 3
    ELSE n

\* The guest prints one piece of text: a prompt, or other text. It prints
\* to the automation, which start() begins in the tick the console connects.
TGuestPrint(piece) ==
    /\ terminal.socket = "open"
    /\ ~tconn.closeQueued /\ ~tconn.peerClosed
    /\ login.promise # "none"
    /\ thist.printed < MaxPieces
    /\ tIn' = tIn \o piece
    /\ thist' = [thist EXCEPT !.printed = @ + 1,
                              !.presented = Presented(@, piece)]
    /\ UNCHANGED <<terminal, tconn, tcall, login, tOut>>
    /\ TermOnly

\* socket 'data' handler for a chunk of the first k runs on the wire:
\* emit('data'), which runs onData of autoLogin while it listens.
TOnData(k) ==
    /\ terminal.socket = "open"
    /\ tconn.handlers /\ ~tconn.closeQueued
    /\ k \in 1..Len(tIn)
    /\ SetConsole(IF login.listening
                  THEN LoginOnData(Console, SubSeq(tIn, 1, k))
                  ELSE Console)
    /\ tIn' = SubSeq(tIn, k + 1, Len(tIn))
    /\ TermOnly

\* autoLogin: the nudge interval (10 s) and the initial nudge (2 s) write a
\* bare line terminator; tOut does not record it.
TNudge ==
    /\ login.nudgeInterval
    /\ terminal.loginState = "waiting_login" /\ terminal.connected
    /\ UNCHANGED termVars
    /\ TermOnly

\* autoLogin: the first 500 ms timer. this.socket.write throws when
\* disconnect() has set this.socket to null, and the second timer is not set.
TSttyTimer ==
    /\ login.sttyTimer
    /\ login' = [login EXCEPT !.sttyTimer = FALSE,
                              !.readyTimer = terminal.socket # "null"]
    /\ tOut' = IF terminal.socket # "null" THEN Append(tOut, "stty") ELSE tOut
    /\ UNCHANGED <<terminal, tconn, tcall, tIn, thist>>
    /\ TermOnly

\* TReadyTimer announcing 'ready' without the move to the ready state.
TReadyTimerAnnounceOnly ==
    /\ login.readyTimer
    /\ SetConsole(
         [EmitStatus(LoginCleanup(Console), "ready") EXCEPT
              !.login.readyTimer = FALSE,
              !.login.promise = IF @ = "pending" THEN "resolved" ELSE @])
    /\ UNCHANGED tIn
    /\ TermOnly

\* autoLogin: the second 500 ms timer.
TReadyTimer ==
    /\ login.readyTimer
    /\ SetConsole(
         [EmitStatus(LoginCleanup(Console), "ready") EXCEPT
              !.terminal.loggedIn = TRUE,
              !.terminal.loginState = "ready",
              !.login.readyTimer = FALSE,
              !.login.promise = IF @ = "pending" THEN "resolved" ELSE @])
    /\ UNCHANGED tIn
    /\ TermOnly

\* socket 'error' handler (the socket then closes). emit('error') throws
\* when the TerminalManager has no 'error' listener.
TSocketError ==
    /\ terminal.socket = "open"
    /\ tconn.handlers /\ ~tconn.closeQueued
    /\ terminal' = [terminal EXCEPT !.connected = FALSE]
    /\ tconn' = [tconn EXCEPT !.closeQueued = TRUE]
    /\ tIn' = <<>>
    /\ UNCHANGED <<tcall, login, tOut, thist>>
    /\ TermOnly

\* The guest side closes the connection.
TPeerClose ==
    /\ terminal.socket = "open"
    /\ tconn.handlers /\ ~tconn.closeQueued /\ ~tconn.peerClosed
    /\ tconn' = [tconn EXCEPT !.peerClosed = TRUE]
    /\ UNCHANGED <<terminal, tcall, login, tIn, tOut, thist>>
    /\ TermOnly

\* OnClose with no onClose listener of autoLogin registered.
OnCloseUnheard(st) ==
    [st EXCEPT !.terminal.connected = FALSE,
               !.terminal.loggedIn = FALSE,
               !.terminal.loginState = "idle",
               !.terminal.socket = IF @ = "null" THEN "null" ELSE "closed",
               !.tconn.closeQueued = FALSE,
               !.tconn.handlers = FALSE]

\* socket 'close' handler: emit('close') runs onClose of autoLogin.
OnClose(st) ==
    LET s1 == [st EXCEPT !.terminal.connected = FALSE,
                         !.terminal.loggedIn = FALSE,
                         !.terminal.loginState = "idle",
                         !.terminal.socket =
                             IF @ = "null" THEN "null" ELSE "closed",
                         !.tconn.closeQueued = FALSE,
                         !.tconn.handlers = FALSE]
    IN IF st.login.listening
       THEN [LoginCleanup(s1) EXCEPT
                 !.login.promise = IF @ = "pending" THEN "rejected" ELSE @]
       ELSE s1

TOnClose ==
    /\ tconn.handlers
    /\ \/ tconn.closeQueued
       \/ terminal.socket = "open" /\ tconn.peerClosed /\ tIn = <<>>
    /\ SetConsole(OnClose(Console))
    /\ tIn' = <<>>
    /\ TermOnly

\* disconnect()
TermDisconnect(st) ==
    [st EXCEPT !.terminal.connected = FALSE,
               !.terminal.loggedIn = FALSE,
               !.terminal.loginState = "idle",
               !.terminal.socket = "null",
               !.tconn.closeQueued =
                   IF st.terminal.socket = "open" THEN TRUE ELSE @]

TDisconnect ==
    /\ SetConsole(TermDisconnect(Console))
    /\ tIn' = <<>>
    /\ TermOnly

\* One console session: a single connect() with one dial, then autoLogin.
TermSessionNext ==
    \/ tconn.id = 0 /\ TConnect(1)
    \/ TDialFail
    \/ TConnected
    \/ TAutoLogin
    \/ \E piece \in Pieces : TGuestPrint(piece)
    \/ \E k \in 1..(8 * MaxPieces) : TOnData(k)
    \/ TNudge
    \/ TSttyTimer
    \/ TReadyTimer
    \/ TSocketError
    \/ TPeerClose
    \/ TOnClose
    \/ TDisconnect

TermInitState ==
    /\ terminal = TerminalInit
    /\ tconn = NoTConn
    /\ tcall = NoCall
    /\ login = NoLogin
    /\ tIn = <<>>
    /\ tOut = <<>>
    /\ thist = [printed |-> 0, presented |-> 0, status |-> <<>>]

----------------------------------------------------------------------------
(***************************************************************************)
(* VMManager (vm-manager.js)                                               *)
(*                                                                         *)
(* The supervisor drives the two clients through their own operations.     *)
(* Their connections are summarised here: a dial is one attempt, the       *)
(* handshake of the control channel and the prompts of the console each    *)
(* arrive in one step; SpecQMP, SpecQMPDial and SpecTerminal have the      *)
(* detail.                                                                 *)
(***************************************************************************)
PortBase == 14000

ScanLen == 100

\* What a port probe can find bound at the moment findFreePort runs.
AllPorts == PortBase..(PortBase + 2 * ScanLen)

BusyChoices == {{}, {PortBase}, AllPorts}

\* findFreePort(startPort) when the ports in busy cannot be bound;
\* 0 stands for the throw of 'No free port found'.
FindFreePort(startPort, busy) ==
    LET free == {q \in startPort..(startPort + ScanLen - 1) : q \notin busy}
    IN IF free = {} THEN 0
       ELSE CHOOSE q \in free : \A o \in free : q <= o

\* constructor(); 0 stands for null.
VmInit == [vmProcess |-> 0, isRunning |-> FALSE, serialPort |-> 0, qmpPort |-> 0]

\* getStatus()
GetStatus ==
    [isRunning |-> vm.isRunning,
     pid |-> vm.vmProcess,
     serialPort |-> vm.serialPort,
     qmpPort |-> vm.qmpPort,
     terminalReady |-> terminal.loggedIn]

\* The stages of a start() call that is still in progress.
StartStages == {"port1", "port2", "grace", "qmp", "serial", "login"}

\* StartCall without the fs.existsSync(vmImage) check.
StartCallNoImageCheck(imageExists) ==
    /\ Len(starts) < MaxStarts
    /\ starts' = Append(starts,
          [pc |-> IF vm.isRunning THEN "AlreadyRunning" ELSE "port1",
           from |-> 0, proc |-> 0])
    /\ UNCHANGED <<vm, procs, stops, qmpVars, termVars>>
    /\ VmFrame

\* start(config): the running check and the image check.
StartCall(imageExists) ==
    /\ Len(starts) < MaxStarts
    /\ starts' = Append(starts,
          [pc |-> IF vm.isRunning THEN "AlreadyRunning"
                  ELSE IF ~imageExists THEN "ImageMissing"
                  ELSE "port1",
           from |-> 0, proc |-> 0])
    /\ UNCHANGED <<vm, procs, stops, qmpVars, termVars>>
    /\ VmFrame

\* start(): this.serialPort = await this.findFreePort(14000), and the call
\* of findFreePort(this.serialPort + 1).
StartPort1(i, busy) ==
    /\ i \in 1..Len(starts)
    /\ starts[i].pc = "port1"
    /\ LET port == FindFreePort(PortBase, busy) IN
       IF port = 0
       THEN /\ starts' = [starts EXCEPT ![i].pc = "NoFreePort"]
            /\ vm' = vm
       ELSE /\ starts' = [starts EXCEPT ![i].pc = "port2", ![i].from = port + 1]
            /\ vm' = [vm EXCEPT !.serialPort = port]
    /\ UNCHANGED <<procs, stops, qmpVars, termVars>>
    /\ VmFrame

\* start(): this.qmpPort = await ..., buildQEMUArgs, spawn, the 'exit' and
\* 'error' handlers, this.isRunning = true. spawned tells whether the binary
\* at this.qemuPath can be executed, the same for every spawn; if it cannot,
\* the 'error' handler runs in the next tick, before any other event.
StartPort2(i, busy, spawned) ==
    /\ i \in 1..Len(starts)
    /\ starts[i].pc = "port2"
    /\ procs # <<>> => spawned = (procs[1].state # "failed")
    /\ LET port == FindFreePort(starts[i].from, busy) IN
       IF port = 0
       THEN /\ starts' = [starts EXCEPT ![i].pc = "NoFreePort"]
            /\ UNCHANGED <<vm, procs>>
       ELSE /\ procs' = Append(procs,
                  [state |-> IF spawned THEN "running" ELSE "failed",
                   serialPort |-> vm.serialPort, qmpPort |-> port,
                   sigterm |-> FALSE, sigkill |-> FALSE])
            /\ vm' = IF spawned
                     THEN [vm EXCEPT !.qmpPort = port,
                                     !.vmProcess = Len(procs) + 1,
                                     !.isRunning = TRUE]
                     ELSE [vm EXCEPT !.qmpPort = 0,
                                     !.serialPort = 0,
                                     !.vmProcess = Len(procs) + 1,
                                     !.isRunning = FALSE]
            /\ starts' = [starts EXCEPT ![i].pc = "grace",
                                        ![i].proc = Len(procs) + 1]
    /\ UNCHANGED <<stops, qmpVars, termVars>>
    /\ VmFrame

\* start(): after the 2 s grace period, the crash check, then
\* this.qmp.connect(this.qmpPort).
StartGrace(i) ==
    /\ i \in 1..Len(starts)
    /\ starts[i].pc = "grace"
    /\ IF ~vm.isRunning \/ vm.vmProcess = 0
          \/ procs[vm.vmProcess].state # "running"
       THEN /\ starts' = [starts EXCEPT ![i].pc = "ImmediateExit"]
            /\ UNCHANGED qmpVars
       ELSE /\ starts' = [starts EXCEPT ![i].pc = "qmp"]
            /\ TryConnect([connectP |-> "pending", tryP |-> "pending",
                           attempt |-> 1, retries |-> 1])
            /\ UNCHANGED <<calls, qOut>>
    /\ UNCHANGED <<vm, procs, stops, termVars>>
    /\ VmFrame

\* start(): qmp.connect() settled; on success this.terminal.connect(...).
StartQmpDone(i) ==
    /\ i \in 1..Len(starts)
    /\ starts[i].pc = "qmp"
    /\ qcall.connectP \in {"resolved", "rejected"}
    /\ IF qcall.connectP = "rejected"
       THEN /\ starts' = [starts EXCEPT ![i].pc = "QmpConnectExhausted"]
            /\ UNCHANGED termVars
       ELSE /\ starts' = [starts EXCEPT ![i].pc = "serial"]
            /\ TTryConnect([connectP |-> "pending", tryP |-> "pending",
                            attempt |-> 1, retries |-> 1])
            /\ UNCHANGED <<login, tOut, thist>>
    /\ UNCHANGED <<vm, procs, stops, qmpVars>>
    /\ VmFrame

\* start(): terminal.connect() settled; on success terminal.autoLogin(...).
StartSerialDone(i) ==
    /\ i \in 1..Len(starts)
    /\ starts[i].pc = "serial"
    /\ tcall.connectP \in {"resolved", "rejected"}
    /\ IF tcall.connectP = "rejected"
       THEN /\ starts' = [starts EXCEPT ![i].pc = "SerialConnectExhausted"]
            /\ UNCHANGED termVars
       ELSE /\ starts' = [starts EXCEPT ![i].pc = "login"]
            /\ SetConsole(AutoLogin(Console))
            /\ UNCHANGED tIn
    /\ UNCHANGED <<vm, procs, stops, qmpVars>>
    /\ VmFrame

\* StartLoginDone with autoLogin() called and not awaited.
StartLoginUnawaited(i) ==
    /\ i \in 1..Len(starts)
    /\ starts[i].pc = "login"
    /\ starts' = [starts EXCEPT ![i].pc = IF login.promise = "rejected"
                                          THEN "LoginAborted" ELSE "ok"]
    /\ UNCHANGED <<vm, procs, stops, qmpVars, termVars>>
    /\ VmFrame

\* start(): autoLogin() settled; return true, or its error.
StartLoginDone(i) ==
    /\ i \in 1..Len(starts)
    /\ starts[i].pc = "login"
    /\ login.promise \in {"resolved", "rejected"}
    /\ starts' = [starts EXCEPT ![i].pc = IF login.promise = "resolved"
                                          THEN "ok" ELSE "LoginAborted"]
    /\ UNCHANGED <<vm, procs, stops, qmpVars, termVars>>
    /\ VmFrame

\* A start() whose awaited promise has settled runs before any other event.
Continuation ==
    \E i \in 1..Len(starts) :
        \/ starts[i].pc = "qmp" /\ qcall.connectP \in {"resolved", "rejected"}
        \/ starts[i].pc = "serial" /\ tcall.connectP \in {"resolved", "rejected"}
        \/ starts[i].pc = "login" /\ login.promise \in {"resolved", "rejected"}

\* disconnect() of a client, with the 'close' event that socket.destroy()
\* queues for the next tick.
QmpDisconnectClose(st) ==
    LET d == Disconnect(st) IN
    IF d.qconn.closeQueued THEN OnQmpClose(d) ELSE d

TermDisconnectClose(st) ==
    LET d == TermDisconnect(st) IN
    IF d.tconn.closeQueued THEN OnClose(d) ELSE d

\* stop(): cleanup(), on the clients and the supervisor fields.
Cleanup ==
    /\ SetClient(QmpDisconnectClose(Client))
    /\ qIn' = <<>>
    /\ SetConsole(TermDisconnectClose(Console))
    /\ tIn' = <<>>
    /\ vm' = [vm EXCEPT !.isRunning = FALSE, !.serialPort = 0, !.qmpPort = 0]

\* StopCall with only the this.vmProcess half of the running check.
StopCallProcessOnly ==
    /\ Len(stops) + stopReturns < MaxStops
    /\ vm.vmProcess # 0
    /\ LET st == IF qmp.ready THEN Execute(Client, "system_powerdown")
                 ELSE Client
       IN /\ stops' = Append(stops,
                [proc |-> vm.vmProcess, exitListener |-> TRUE,
                 gracefulTimeout |-> TRUE, forceTimeout |-> FALSE,
                 forceProc |-> 0, wasReady |-> qmp.ready,
                 powerdown |-> IF Len(st.calls) > Len(calls)
                               THEN Len(st.calls) ELSE 0,
                 sigterm |-> FALSE, sigkill |-> FALSE,
                 termLate |-> FALSE, killLate |-> FALSE,
                 resolves |-> 0])
          /\ SetClient(st)
    /\ UNCHANGED <<vm, procs, starts, qIn, termVars>>
    /\ VmFrame

\* stop(), past the running check: the power-down command if the control
\* channel is ready, the 15 s timer, the 'exit' listener. The record keeps
\* what the call saw and did: wasReady, the id of the command it issued
\* (0: none), the signals it sent and whether its process had exited by then.
StopCall ==
    /\ Len(stops) + stopReturns < MaxStops
    /\ vm.isRunning /\ vm.vmProcess # 0
    /\ LET st == IF qmp.ready THEN Execute(Client, "system_powerdown")
                 ELSE Client
       IN /\ stops' = Append(stops,
                [proc |-> vm.vmProcess, exitListener |-> TRUE,
                 gracefulTimeout |-> TRUE, forceTimeout |-> FALSE,
                 forceProc |-> 0, wasReady |-> qmp.ready,
                 powerdown |-> IF Len(st.calls) > Len(calls)
                               THEN Len(st.calls) ELSE 0,
                 sigterm |-> FALSE, sigkill |-> FALSE,
                 termLate |-> FALSE, killLate |-> FALSE,
                 resolves |-> 0])
          /\ SetClient(st)
    /\ UNCHANGED <<vm, procs, starts, qIn, termVars>>
    /\ VmFrame

\* stop(): if (!this.isRunning || !this.vmProcess) return;
StopReturn ==
    /\ Len(stops) + stopReturns < MaxStops
    /\ ~vm.isRunning \/ vm.vmProcess = 0
    /\ stopReturns' = stopReturns + 1
    /\ UNCHANGED <<vm, procs, starts, stops, qmpVars, termVars, healthVars,
                   imageVars>>

\* vmProcess.kill(signal): a process that has gone receives nothing.
Kill(ps, p, signal) ==
    IF ps[p].state # "running" THEN ps
    ELSE IF signal = "SIGTERM" THEN [ps EXCEPT ![p].sigterm = TRUE]
    ELSE [ps EXCEPT ![p].sigkill = TRUE]

\* stop(): the 15 s timer. this.vmProcess is never null once a process was
\* spawned, so the else branch is not taken.
StopGracefulTimeout(s) ==
    /\ s \in 1..Len(stops)
    /\ stops[s].gracefulTimeout
    /\ procs' = Kill(procs, vm.vmProcess, "SIGTERM")
    /\ stops' = [stops EXCEPT ![s].gracefulTimeout = FALSE,
                              ![s].sigterm = TRUE,
                              ![s].forceTimeout = TRUE,
                              ![s].forceProc = vm.vmProcess,
                              ![s].termLate =
                                  procs[stops[s].proc].state # "running"]
    /\ UNCHANGED <<vm, starts, qmpVars, termVars>>
    /\ VmFrame

\* StopForceTimeout without the cleanup() after the SIGKILL.
StopForceTimeoutKillOnly(s) ==
    /\ s \in 1..Len(stops)
    /\ stops[s].forceTimeout
    /\ procs' = Kill(procs, vm.vmProcess, "SIGKILL")
    /\ stops' = [stops EXCEPT ![s].forceTimeout = FALSE,
                              ![s].sigkill = TRUE,
                              ![s].killLate =
                                  procs[stops[s].proc].state # "running"]
    /\ UNCHANGED <<vm, starts, qmpVars, termVars>>
    /\ VmFrame

\* stop(): the 5 s timer: SIGKILL, then cleanup().
StopForceTimeout(s) ==
    /\ s \in 1..Len(stops)
    /\ stops[s].forceTimeout
    /\ procs' = Kill(procs, vm.vmProcess, "SIGKILL")
    /\ stops' = [stops EXCEPT ![s].forceTimeout = FALSE,
                              ![s].sigkill = TRUE,
                              ![s].resolves = @ + 1,
                              ![s].killLate =
                                  procs[stops[s].proc].state # "running"]
    /\ Cleanup
    /\ UNCHANGED starts
    /\ VmFrame

\* What the 'exit' listeners of the stop() calls do when process p exits:
\* clearTimeout and cleanup() for each listener registered on p.
StopOnExit(st, p) ==
    LET first == st.exitListener /\ st.proc = p
        second == st.forceProc = p
    IN [st EXCEPT !.exitListener = IF first THEN FALSE ELSE @,
                  !.gracefulTimeout = IF first THEN FALSE ELSE @,
                  !.forceTimeout = IF second THEN FALSE ELSE @,
                  !.forceProc = IF second THEN 0 ELSE @,
                  !.resolves = @ + (IF first THEN 1 ELSE 0)
                                 + (IF second THEN 1 ELSE 0)]

\* Process p exits: the 'exit' handler of start(), then the listeners of
\* the stop() calls.
ProcExit(p) ==
    /\ p \in 1..Len(procs)
    /\ procs[p].state = "running"
    /\ procs' = [procs EXCEPT ![p].state = "exited"]
    /\ stops' = [s \in 1..Len(stops) |-> StopOnExit(stops[s], p)]
    /\ IF \E s \in 1..Len(stops) :
             \/ stops[s].exitListener /\ stops[s].proc = p
             \/ stops[s].forceProc = p
       THEN Cleanup
       ELSE /\ vm' = [vm EXCEPT !.isRunning = FALSE, !.serialPort = 0,
                                !.qmpPort = 0]
            /\ UNCHANGED <<qmpVars, termVars>>
    /\ UNCHANGED starts
    /\ VmFrame

\* The control channel connects and the handshake completes: the connect
\* callback, then the data handler on the greeting and on the reply to
\* qmp_capabilities.
VQmpNegotiated ==
    /\ qmp.socket = "connecting"
    /\ LET st == [Client EXCEPT
                     !.qmp.socket = "open",
                     !.qmp.buffer = IF @ = "" THEN "" ELSE "stale",
                     !.qconn.handlers = TRUE,
                     !.qconn.onReady = TRUE,
                     !.qconn.onError = TRUE]
       IN SetClient(Deliver(st, <<Greeting, Rec("return", 0)>>))
    /\ qIn' = <<>>
    /\ QmpOnly

\* The server answers command c and the data handler reads the answer.
VQmpReply(c, t) ==
    /\ qmp.socket = "open"
    /\ qconn.handlers /\ ~qconn.closeQueued /\ ~qconn.peerClosed
    /\ c \in qmp.pendingCommands
    /\ SetClient(HandleLine(Client, Rec(t, c)))
    /\ UNCHANGED qIn
    /\ QmpOnly

\* The control channel is lost: the peer closes it, or the 5 s idle timeout
\* of _tryConnect destroys it; the 'close' handler runs.
VQmpLost ==
    /\ qmp.socket = "open"
    /\ qconn.handlers
    /\ SetClient(OnQmpClose(Client))
    /\ qIn' = <<>>
    /\ QmpOnly

\* The console connection is lost; the 'close' handler runs.
VTermLost ==
    /\ terminal.socket = "open"
    /\ tconn.handlers
    /\ SetConsole(OnClose(Console))
    /\ tIn' = <<>>
    /\ TermOnly

\* The guest prints the three prompts, each after the reply to the one
\* before, and onData runs on each.
VLoginPrompts ==
    /\ terminal.socket = "open"
    /\ tconn.handlers /\ ~tconn.closeQueued /\ ~tconn.peerClosed
    /\ login.listening
    /\ terminal.loginState = "waiting_login"
    /\ SetConsole(LoginOnData(LoginOnData(LoginOnData(Console, LoginPrompt),
                                          PasswordPrompt), Dollar))
    /\ UNCHANGED tIn
    /\ TermOnly

\* One start() call, the stop() calls that follow it, and both clients.
VmNext ==
    \/ \E i \in 1..MaxStarts : StartQmpDone(i)
    \/ \E i \in 1..MaxStarts : StartSerialDone(i)
    \/ \E i \in 1..MaxStarts : StartLoginDone(i)
    \/ ~Continuation /\ starts = <<>> /\ \E img \in BOOLEAN : StartCall(img)
    \/ ~Continuation /\ \E i \in 1..MaxStarts, busy \in BusyChoices :
                            StartPort1(i, busy)
    \/ ~Continuation /\ \E i \in 1..MaxStarts, busy \in BusyChoices,
                            spawned \in BOOLEAN : StartPort2(i, busy, spawned)
    \/ ~Continuation /\ \E i \in 1..MaxStarts : StartGrace(i)
    \/ ~Continuation /\ StopCall
    \/ ~Continuation /\ StopReturn
    \/ ~Continuation /\ \E s \in 1..MaxStops : StopGracefulTimeout(s)
    \/ ~Continuation /\ \E s \in 1..MaxStops : StopForceTimeout(s)
    \/ ~Continuation /\ \E p \in 1..MaxStarts : ProcExit(p)
    \/ ~Continuation /\ QDialFail
    \/ ~Continuation /\ VQmpNegotiated
    \/ ~Continuation /\ \E c \in 1..MaxCalls, t \in {"return", "error"} :
                            VQmpReply(c, t)
    \/ ~Continuation /\ \E c \in 1..MaxCalls : QCmdTimeout(c)
    \/ ~Continuation /\ VQmpLost
    \/ ~Continuation /\ TDialFail
    \/ ~Continuation /\ TConnected
    \/ ~Continuation /\ VLoginPrompts
    \/ ~Continuation /\ TSttyTimer
    \/ ~Continuation /\ TReadyTimer
    \/ ~Continuation /\ VTermLost

\* start() and stop() calls in any interleaving, and the processes; the
\* clients are dialled and never connect.
VmProcNext ==
    \/ \E img \in BOOLEAN : StartCall(img)
    \/ \E i \in 1..MaxStarts, busy \in BusyChoices : StartPort1(i, busy)
    \/ \E i \in 1..MaxStarts, busy \in BusyChoices, spawned \in BOOLEAN :
          StartPort2(i, busy, spawned)
    \/ \E i \in 1..MaxStarts : StartGrace(i)
    \/ StopCall
    \/ StopReturn
    \/ \E s \in 1..MaxStops : StopGracefulTimeout(s)
    \/ \E s \in 1..MaxStops : StopForceTimeout(s)
    \/ \E p \in 1..MaxStarts : ProcExit(p)

VmInitState ==
    /\ vm = VmInit
    /\ procs = <<>>
    /\ starts = <<>>
    /\ stops = <<>>
    /\ stopReturns = 0

----------------------------------------------------------------------------
(***************************************************************************)
(* VMManager.waitForOpenClaw and getOpenClawHealth (vm-manager.js)         *)
(*                                                                         *)
(* Time is counted in runs of the 2 s interval callback. A request ends    *)
(* within its 5 s timeout, so a poll is answered, or fails, before the     *)
(* third callback after the one that started it.                           *)
(***************************************************************************)
\* The largest timeout of a call, in interval periods.
MaxTimeout == 3

\* Interval callbacks a request can outlast (5 s against 2 s).
PollSpan == 2

\* How a request of getOpenClawHealth ends: a response, or req 'error',
\* or the 5 s timeout of the request.
PollOutcomes ==
    [kind : {"response"}, status : {200, 204, 500},
     body : {"empty", "text", "healthyTrue", "healthyFalse", "object"}]
        \cup {[kind |-> k, status |-> 0, body |-> "empty"] :
                 k \in {"error", "timeout"}}

\* getOpenClawHealth(): the promise it returns. "rejected" for the two
\* failures; otherwise the healthy member of the object it resolves with:
\* { healthy: res.statusCode === 200, ...health } when the body parses,
\* { healthy: res.statusCode === 200, status: 'running' } when it does not.
GetOpenClawHealth(o) ==
    IF o.kind # "response" THEN "rejected"
    ELSE IF o.body = "healthyTrue" THEN "healthy"
    ELSE IF o.body = "healthyFalse" THEN "unhealthy"
    ELSE IF o.status = 200 THEN "healthy"
    ELSE "unhealthy"

NoHealth ==
    [promise |-> "none", interval |-> FALSE, timeout |-> 0, ticks |-> 0,
     polls |-> <<>>, started |-> 0, answers |-> <<>>,
     last |-> [kind |-> "none", status |-> 0, body |-> "empty"]]

\* waitForOpenClaw(timeout): the promise and setInterval(..., 2000).
WaitCall(timeout) ==
    /\ health.promise = "none"
    /\ health' = [NoHealth EXCEPT !.promise = "pending", !.interval = TRUE,
                                  !.timeout = timeout]
    /\ UNCHANGED <<qmpVars, termVars, vmVars, imageVars>>

\* The interval callback up to its await. The ticks-th callback runs
\* 2 s * ticks after the call, or a little later: when that is the timeout
\* itself, late tells whether Date.now() - startTime has passed it.
WaitTick(late) ==
    /\ health.interval
    /\ \A i \in 1..Len(health.polls) : health.polls[i] < PollSpan
    /\ LET n == health.ticks + 1
           aged == [i \in 1..Len(health.polls) |-> health.polls[i] + 1]
       IN IF n > health.timeout \/ (n = health.timeout /\ late)
          THEN health' = [health EXCEPT
                              !.ticks = n,
                              !.polls = aged,
                              !.interval = FALSE,
                              !.promise = IF @ = "pending" THEN "rejected"
                                          ELSE @]
          ELSE health' = [health EXCEPT
                              !.ticks = n,
                              !.polls = Append(aged, 0),
                              !.started = @ + 1]
    /\ UNCHANGED <<qmpVars, termVars, vmVars, imageVars>>

\* The interval callback after its await: the request of poll i has ended
\* with outcome o; answers and last keep what the polls returned.
WaitPollDone(i, o) ==
    /\ i \in 1..Len(health.polls)
    /\ LET rest == [j \in 1..(Len(health.polls) - 1) |->
                       IF j < i THEN health.polls[j] ELSE health.polls[j + 1]]
           answer == GetOpenClawHealth(o)
       IN IF answer = "healthy"
          THEN health' = [health EXCEPT
                              !.polls = rest,
                              !.answers = Append(@, answer),
                              !.last = o,
                              !.interval = FALSE,
                              !.promise = IF @ = "pending" THEN "resolved"
                                          ELSE @]
          ELSE health' = [health EXCEPT !.polls = rest,
                                        !.answers = Append(@, answer),
                                        !.last = o]
    /\ UNCHANGED <<qmpVars, termVars, vmVars, imageVars>>

\* One waitForOpenClaw() call.
HealthNext ==
    \/ \E t \in 1..MaxTimeout : WaitCall(t)
    \/ \E late \in BOOLEAN : WaitTick(late)
    \/ \E i \in 1..(PollSpan + 1), o \in PollOutcomes : WaitPollDone(i, o)

HealthInitState == health = NoHealth

----------------------------------------------------------------------------
(***************************************************************************)
(* UpdateChecker (update-checker.js)                                       *)
(*                                                                         *)
(* File names are sequences of characters. Two orders on them matter:      *)
(* String.prototype.localeCompare, which sorts the parts for download,     *)
(* and the order in which the shell expands *.tar.gz.* for concatenation.  *)
(***************************************************************************)
\* Code unit of each character that occurs in a name.
CodeUnit(c) ==
    CASE c = "-" -> 45 [] c = "." -> 46 [] c = "2" -> 50
      [] c = "I" -> 73 [] c = "a" -> 97 [] c = "b" -> 98 [] c = "c" -> 99
      [] c = "g" -> 103 [] c = "i" -> 105 [] c = "m" -> 109
      [] c = "o" -> 111 [] c = "q" -> 113 [] c = "r" -> 114
      [] c = "t" -> 116 [] c = "w" -> 119 [] c = "z" -> 122

IsUpper(c) == CodeUnit(c) \in 65..90

IsLower(c) == CodeUnit(c) \in 97..122

\* Lexicographic comparison of two sequences of numbers: -1, 0 or 1.
RECURSIVE LexCmp(_, _)
LexCmp(x, y) ==
    IF x = <<>> /\ y = <<>> THEN 0
    ELSE IF x = <<>> THEN -1
    ELSE IF y = <<>> THEN 1
    ELSE IF Head(x) < Head(y) THEN -1
    ELSE IF Head(x) > Head(y) THEN 1
    ELSE LexCmp(Tail(x), Tail(y))

\* a.localeCompare(b): first-level weights decide (punctuation, then
\* digits, then the letters without regard to case); between names equal at
\* that level, lower case sorts before upper case at the first difference.
LocaleCompare(a, b) ==
    LET primary(c) == IF IsUpper(c) THEN CodeUnit(c) + 32 ELSE CodeUnit(c)
        pa == [i \in 1..Len(a) |-> primary(a[i])]
        pb == [i \in 1..Len(b) |-> primary(b[i])]
        ca == [i \in 1..Len(a) |-> IF IsUpper(a[i]) THEN 1 ELSE 0]
        cb == [i \in 1..Len(b) |-> IF IsUpper(b[i]) THEN 1 ELSE 0]
    IN IF LexCmp(pa, pb) # 0 THEN LexCmp(pa, pb) ELSE LexCmp(ca, cb)

\* name.endsWith(tail)
EndsWith(name, tail) ==
    /\ Len(name) >= Len(tail)
    /\ SubSeq(name, Len(name) - Len(tail) + 1, Len(name)) = tail

\* name.match(/\.tar\.gz\.[a-z]+$/)
IsSplitPart(name) ==
    \E k \in 1..Len(name) :
        /\ \A i \in (Len(name) - k + 1)..Len(name) : IsLower(name[i])
        /\ EndsWith(SubSeq(name, 1, Len(name) - k),
                    <<".", "t", "a", "r", ".", "g", "z", ".">>)

\* The two collations a list of names is put in order by: localeCompare,
\* and comparison by code units, the order of a shell glob in the C locale.
Compare(collation, a, b) ==
    IF collation = "locale" THEN LocaleCompare(a, b)
    ELSE LexCmp([i \in 1..Len(a) |-> CodeUnit(a[i])],
                [i \in 1..Len(b) |-> CodeUnit(b[i])])

\* A stable sort of a sequence of names in the given collation.
RECURSIVE InsertBy(_, _, _)
InsertBy(sorted, x, collation) ==
    IF sorted = <<>> THEN <<x>>
    ELSE IF Compare(collation, x, Head(sorted)) < 0 THEN <<x>> \o sorted
    ELSE <<Head(sorted)>> \o InsertBy(Tail(sorted), x, collation)

RECURSIVE SortBy(_, _)
SortBy(names, collation) ==
    IF names = <<>> THEN <<>>
    ELSE InsertBy(SortBy(SubSeq(names, 1, Len(names) - 1), collation),
                  names[Len(names)], collation)

\* The names of the assets the releases below carry.
Names ==
    LET stem == <<"i", "m", "g">>
        part(s, x) == s \o <<".", "t", "a", "r", ".", "g", "z", ".">> \o x
    IN [aa |-> part(stem, <<"a", "a">>),
        ab |-> part(stem, <<"a", "b">>),
        ac |-> part(stem, <<"a", "c">>),
        capAB |-> part(<<"I", "m", "g">>, <<"a", "b">>),
        whole |-> stem \o <<".", "q", "c", "o", "w", "2">>,
        archive |-> stem \o <<".", "t", "a", "r", ".", "g", "z">>]

Asset(name, size) == [name |-> name, size |-> size]

NoAsset == Asset(<<>>, 0)

Release(tag, assets) == [tag |-> tag, assets |-> assets]

NoRelease == Release(<<>>, <<>>)

\* The release lists a call may be answered with, newest release first:
\* releases of the application (app), a release without tag_name
\* (untagged) and VM-image releases.
ReleaseLists ==
    LET vmTag(n) == <<"v", "m", "-">> \o n
        app == Release(<<"v", "1">>, <<Asset(Names.archive, 1)>>)
        untagged == Release(<<>>, <<Asset(Names.whole, 1)>>)
    IN  { <<>>,
          <<app>>,
          <<app,
            Release(vmTag(<<"2">>),
                    <<Asset(Names.ab, 1), Asset(Names.archive, 1), Asset(Names.aa, 2),
                      Asset(Names.ac, 1)>>),
            Release(vmTag(<<"1">>), <<Asset(Names.whole, 2)>>)>>,
          <<untagged, app,
            Release(vmTag(<<"2">>), <<Asset(Names.whole, 2)>>),
            Release(vmTag(<<"1">>), <<Asset(Names.aa, 1), Asset(Names.ab, 1)>>)>>,
          <<Release(vmTag(<<"2">>), <<Asset(Names.archive, 1)>>),
            Release(vmTag(<<"1">>), <<Asset(Names.whole, 2)>>)>>,
          <<Release(vmTag(<<"2">>), <<Asset(Names.aa, 1), Asset(Names.ab, 2)>>)>>,
          <<Release(vmTag(<<"2">>),
                    <<Asset(Names.capAB, 1), Asset(Names.aa, 1)>>)>> }

\* What a file of the destination directory holds: nothing (absent), what
\* it held before the call (old), a truncated or half-written image
\* (partial), or a complete image written by the call (new). canonical is
\* openclaw-headless.qcow2, extra a .qcow2 file of another name; temp tells
\* whether _download_temp exists and tempFiles which files it holds.
Disk(canonical, extra, temp, tempFiles) ==
    [canonical |-> canonical, extra |-> extra, temp |-> temp,
     tempFiles |-> tempFiles]

\* The directory as a call may find it; the scratch directory of a call
\* that was interrupted may have been left behind.
PriorDisks ==
    {Disk(c, e, FALSE, {}) : c \in {"absent", "old"}, e \in {"absent", "old"}}
        \cup {Disk(c, "absent", TRUE, {Names.ac}) : c \in {"absent", "old"}}

\* The newest release of the list whatever its tag, as releases/latest
\* would give it.
GetLatestRelease(releases) ==
    IF releases = <<>> THEN NoRelease ELSE releases[1]

\* releases.find(r => r.tag_name && r.tag_name.startsWith('vm-'))
GetLatestVMRelease(releases) ==
    LET startsWith(str, prefix) ==
            /\ Len(str) >= Len(prefix)
            /\ SubSeq(str, 1, Len(prefix)) = prefix
        hits == {i \in 1..Len(releases) :
                    /\ releases[i].tag # <<>>
                    /\ startsWith(releases[i].tag, <<"v", "m", "-">>)}
    IN IF hits = {} THEN NoRelease
       ELSE releases[CHOOSE i \in hits : \A j \in hits : i <= j]

\* getSplitAssets(release): filter, then sort by localeCompare.
GetSplitAssets(release) ==
    LET names == [i \in 1..Len(release.assets) |-> release.assets[i].name]
        named(name) ==
            release.assets[CHOOSE i \in 1..Len(release.assets) :
                               release.assets[i].name = name]
        sorted == SortBy(SelectSeq(names, IsSplitPart), "locale")
    IN [i \in 1..Len(sorted) |-> named(sorted[i])]

\* getQcow2Asset(release): assets.find(a => a.name.endsWith('.qcow2'))
GetQcow2Asset(release) ==
    LET hits == {i \in 1..Len(release.assets) :
                    EndsWith(release.assets[i].name,
                             <<".", "q", "c", "o", "w", "2">>)}
    IN IF hits = {} THEN NoAsset
       ELSE release.assets[CHOOSE i \in hits : \A j \in hits : i <= j]

RECURSIVE TotalSize(_)
TotalSize(assets) ==
    IF assets = <<>> THEN 0 ELSE Head(assets).size + TotalSize(Tail(assets))

\* Math.round((x / total) * 100)
Percent(x, total) == (200 * x + total) \div (2 * total)

\* The files the shell pattern *.tar.gz.* matches, in the order the shell
\* puts them in.
RECURSIVE Glob(_, _)
Glob(files, collation) ==
    IF files = {} THEN <<>>
    ELSE LET first == CHOOSE x \in files :
                          \A y \in files : Compare(collation, x, y) <= 0
         IN <<first>> \o Glob(files \ {first}, collation)

NoSnapshot == [n |-> 0, percent |-> 0, downloaded |-> 0, total |-> 0]

\* onProgress({ percent, downloaded, total, ... })
Snapshot(prev, percent, downloaded, total) ==
    [n |-> prev.n + 1, percent |-> percent, downloaded |-> downloaded,
     total |-> total]

ImgIdle ==
    [pc |-> "idle", releases |-> <<>>, release |-> NoRelease,
     parts |-> <<>>, direct |-> NoAsset, i |-> 0, received |-> 0,
     totalDownloaded |-> 0, redirected |-> FALSE,
     downloads |-> <<>>, concat |-> <<>>, before |-> Disk("absent", "absent", FALSE, {}),
     error |-> "none", imagePath |-> "none", removals |-> 0,
     aborted |-> FALSE]

ImageOnly == UNCHANGED <<qmpVars, termVars, vmVars, healthVars>>

\* downloadAndExtractVM(destDir, onProgress) is called; the directory is as
\* prior describes and the release list will be releases.
ImageCall(releases, prior) ==
    /\ dl.pc = "idle"
    /\ dl' = [ImgIdle EXCEPT !.pc = "listing", !.releases = releases,
                              !.before = prior]
    /\ disk' = prior
    /\ UNCHANGED progress
    /\ ImageOnly

\* fs.remove(tempDir), which may fail.
RemoveTemp(d, removed) ==
    IF removed THEN [d EXCEPT !.temp = FALSE, !.tempFiles = {}] ELSE d

\* downloadFile: fs.createWriteStream(destPath) creates or truncates.
CreateFile(d, direct, name) ==
    IF direct THEN [d EXCEPT !.canonical = "partial"]
    ELSE [d EXCEPT !.tempFiles = @ \cup {name}]

\* getLatestVMRelease(), getSplitAssets, getQcow2Asset, the two ensureDir
\* calls, the first snapshot and the start of the first download. listed
\* tells whether listReleases() succeeded.
ImgSelect(listed) ==
    /\ dl.pc = "listing"
    /\ LET release == GetLatestVMRelease(dl.releases)
           parts == GetSplitAssets(release)
           direct == GetQcow2Asset(release)
           total == TotalSize(parts)
       IN IF ~listed
          THEN /\ dl' = [dl EXCEPT !.pc = "failed", !.error = "ListFailed"]
               /\ UNCHANGED <<disk, progress>>
          ELSE IF release = NoRelease
          THEN /\ dl' = [dl EXCEPT !.pc = "failed",
                                    !.error = "NoImageRelease"]
               /\ UNCHANGED <<disk, progress>>
          ELSE IF parts = <<>> /\ direct = NoAsset
          THEN /\ dl' = [dl EXCEPT !.pc = "failed", !.release = release,
                                    !.error = "NoImageAssets"]
               /\ UNCHANGED <<disk, progress>>
          ELSE IF direct # NoAsset
          THEN /\ dl' = [dl EXCEPT !.pc = "direct", !.release = release,
                                    !.direct = direct,
                                    !.downloads = <<direct.name>>]
               /\ disk' = CreateFile(disk, TRUE, direct.name)
               /\ progress' = Snapshot(progress, 0, 0, direct.size)
          ELSE /\ dl' = [dl EXCEPT !.pc = "part", !.release = release,
                                    !.parts = parts, !.i = 1,
                                    !.downloads = <<parts[1].name>>]
               /\ disk' = CreateFile([disk EXCEPT !.temp = TRUE], FALSE,
                                     parts[1].name)
               /\ progress' = Snapshot(progress, Percent(0, total), 0, total)
    /\ ImageOnly

\* The asset whose download is in progress.
Downloading == IF dl.pc = "direct" THEN dl.direct ELSE dl.parts[dl.i]

\* downloadFile: a 301 or 302 response: file.close(), and downloadFile
\* again on the location, which opens destPath anew.
ImgRedirect ==
    /\ dl.pc \in {"direct", "part"} /\ ~dl.aborted
    /\ ~dl.redirected /\ dl.received = 0
    /\ dl' = [dl EXCEPT !.redirected = TRUE]
    /\ disk' = CreateFile(disk, dl.pc = "direct", Downloading.name)
    /\ UNCHANGED progress
    /\ ImageOnly

\* downloadFile: a final status other than 200 (kind "http"), or the
\* request's 'error' (kind "net"), which the request emits only as long as
\* no response has arrived: file.close(), unlink, reject. In the split path
\* the catch block then removes the scratch directory.
ImgDownloadFail(kind, removed) ==
    /\ dl.pc \in {"direct", "part"} /\ ~dl.aborted
    /\ dl.received = 0
    /\ LET d == IF dl.pc = "direct"
                THEN [disk EXCEPT !.canonical = "absent"]
                ELSE [disk EXCEPT !.tempFiles = @ \ {Downloading.name}] IN
       /\ disk' = IF dl.pc = "direct" THEN d ELSE RemoveTemp(d, removed)
       /\ dl' = [dl EXCEPT
                      !.pc = "failed",
                      !.error = IF kind = "http" THEN "DownloadHTTPError"
                                ELSE "DownloadError",
                      !.removals = IF dl.pc = "direct" THEN @ ELSE @ + 1]
    /\ UNCHANGED progress
    /\ ImageOnly

\* downloadFile: the connection closes after the 200 response has begun and
\* before its end. The response emits 'aborted' and 'close' and never
\* 'end', and the request no 'error'; downloadFile listens to 'data' and
\* 'end' of the response and to 'error' of the request, so nothing runs.
ImgAbort ==
    /\ dl.pc \in {"direct", "part"} /\ ~dl.aborted
    /\ dl.received < Downloading.size
    /\ dl' = [dl EXCEPT !.aborted = TRUE]
    /\ UNCHANGED <<disk, progress>>
    /\ ImageOnly

\* downloadFile: res 'data'. emit tells whether 500 ms have passed since
\* the last snapshot of this download.
ImgChunk(emit) ==
    /\ dl.pc \in {"direct", "part"} /\ ~dl.aborted
    /\ dl.received < Downloading.size
    /\ dl' = [dl EXCEPT !.received = @ + 1]
    /\ disk' = disk
    /\ LET got == dl.received + 1
           size == Downloading.size
           total == TotalSize(dl.parts)
           sofar == dl.totalDownloaded + got
       IN progress' =
            IF ~emit THEN progress
            ELSE IF dl.pc = "direct"
            THEN Snapshot(progress, Percent(got, size), got, size)
            ELSE Snapshot(progress, Percent(sofar, total), sofar, total)
    /\ ImageOnly

\* ImgEnd without the snapshot downloadFile reports on 'end'.
ImgEndSilent ==
    /\ dl.pc \in {"direct", "part"} /\ ~dl.aborted
    /\ dl.received = Downloading.size
    /\ LET total == TotalSize(dl.parts)
           sofar == dl.totalDownloaded + dl.received
           next == Snapshot(progress, Percent(sofar, total), sofar, total)
       IN IF dl.pc = "direct"
          THEN /\ dl' = [dl EXCEPT !.pc = "ok", !.imagePath = "canonical"]
               /\ disk' = [disk EXCEPT !.canonical = "new"]
               /\ progress' = progress
          ELSE IF dl.i < Len(dl.parts)
          THEN /\ dl' = [dl EXCEPT
                              !.i = @ + 1, !.received = 0,
                              !.redirected = FALSE,
                              !.totalDownloaded = sofar,
                              !.downloads =
                                  Append(@, dl.parts[dl.i + 1].name)]
               /\ disk' = CreateFile(disk, FALSE, dl.parts[dl.i + 1].name)
               /\ progress' = next
          ELSE /\ dl' = [dl EXCEPT !.pc = "extract",
                                    !.totalDownloaded = sofar]
               /\ disk' = disk
               /\ progress' = Snapshot(progress, 100, total, total)
    /\ ImageOnly

\* downloadFile: res 'end': file.end(), the last snapshot, resolve; then
\* what downloadAndExtractVM does next: return (whole image), the next
\* part, or the 'Extracting' snapshot.
ImgEnd ==
    /\ dl.pc \in {"direct", "part"} /\ ~dl.aborted
    /\ dl.received = Downloading.size
    /\ LET total == TotalSize(dl.parts)
           sofar == dl.totalDownloaded + dl.received
           last == Snapshot(progress, Percent(sofar, total), sofar, total)
           next == Snapshot(last, Percent(sofar, total), sofar, total)
       IN IF dl.pc = "direct"
          THEN /\ dl' = [dl EXCEPT !.pc = "ok", !.imagePath = "canonical"]
               /\ disk' = [disk EXCEPT !.canonical = "new"]
               /\ progress' = Snapshot(progress, 100, dl.received,
                                       dl.received)
          ELSE IF dl.i < Len(dl.parts)
          THEN /\ dl' = [dl EXCEPT
                              !.i = @ + 1, !.received = 0,
                              !.redirected = FALSE,
                              !.totalDownloaded = sofar,
                              !.downloads =
                                  Append(@, dl.parts[dl.i + 1].name)]
               /\ disk' = CreateFile(disk, FALSE, dl.parts[dl.i + 1].name)
               /\ progress' = next
          ELSE /\ dl' = [dl EXCEPT !.pc = "extract",
                                    !.totalDownloaded = sofar]
               /\ disk' = disk
               /\ progress' = Snapshot(last, 100, total, total)
    /\ ImageOnly

\* extractSplitArchive(tempDir, destDir): cat "tempDir"/*.tar.gz.* | tar
\* xzf - -C "destDir" (copy /b and 7-Zip on win32). collation is the order
\* of the shell's expansion; done tells whether the command succeeded, and
\* wrote whether a failed command had begun to write the image.
ImgExtract(collation, holds, done, wrote, removed) ==
    /\ dl.pc = "extract"
    /\ done => wrote
    /\ LET files == Glob(disk.tempFiles, collation)
           Unpack(content) ==
               IF holds = "canonical" THEN [disk EXCEPT !.canonical = content]
               ELSE IF holds = "extra" THEN [disk EXCEPT !.extra = content]
               ELSE disk
           d == IF done THEN Unpack("new")
                ELSE IF wrote THEN Unpack("partial")
                ELSE disk
       IN IF done
          THEN /\ dl' = [dl EXCEPT !.pc = "verify", !.concat = files]
               /\ disk' = d
          ELSE /\ dl' = [dl EXCEPT !.pc = "failed", !.concat = files,
                                    !.error = "ExtractFailed",
                                    !.removals = @ + 1]
               /\ disk' = RemoveTemp(d, removed)
    /\ UNCHANGED progress
    /\ ImageOnly

\* The .qcow2 files fs.readdir(destDir) lists.
Qcow2Files ==
    {f \in {"canonical", "extra"} : disk[f] # "absent"}

\* ImgVerify returning without fs.remove(tempDir).
ImgVerifyKeepScratch(first, removed) ==
    /\ dl.pc = "verify"
    /\ Qcow2Files # {} => first \in Qcow2Files
    /\ IF Qcow2Files = {}
       THEN /\ dl' = [dl EXCEPT !.pc = "failed", !.error = "NoImageFound",
                                 !.removals = @ + 1]
            /\ disk' = RemoveTemp(disk, removed)
       ELSE /\ disk' = IF first = "extra"
                       THEN [disk EXCEPT !.canonical = disk.extra,
                                         !.extra = "absent"]
                       ELSE disk
            /\ dl' = [dl EXCEPT !.pc = "ok", !.imagePath = "canonical"]
    /\ UNCHANGED progress
    /\ ImageOnly

\* downloadAndExtractVM after the extraction: readdir, the move to the
\* standard name, fs.remove(tempDir), return. first is the file readdir
\* lists first; removed tells whether fs.remove succeeded.
ImgVerify(first, removed) ==
    /\ dl.pc = "verify"
    /\ Qcow2Files # {} => first \in Qcow2Files
    /\ IF Qcow2Files = {}
       THEN /\ dl' = [dl EXCEPT !.pc = "failed", !.error = "NoImageFound",
                                 !.removals = @ + 1]
            /\ disk' = RemoveTemp(disk, removed)
       ELSE LET moved == IF first = "extra"
                         THEN [disk EXCEPT !.canonical = disk.extra,
                                           !.extra = "absent"]
                         ELSE disk
            IN /\ disk' = RemoveTemp(moved, removed)
               /\ dl' = IF removed
                         THEN [dl EXCEPT !.pc = "ok",
                                          !.imagePath = "canonical",
                                          !.removals = @ + 1]
                         ELSE [dl EXCEPT !.pc = "failed",
                                          !.error = "RemoveFailed",
                                          !.removals = @ + 2]
    /\ UNCHANGED progress
    /\ ImageOnly

\* One downloadAndExtractVM() call.
ImageNext ==
    \/ \E releases \in ReleaseLists, prior \in PriorDisks :
          ImageCall(releases, prior)
    \/ \E listed \in BOOLEAN : ImgSelect(listed)
    \/ ImgRedirect
    \/ \E kind \in {"http", "net"}, removed \in BOOLEAN :
          ImgDownloadFail(kind, removed)
    \/ \E emit \in BOOLEAN : ImgChunk(emit)
    \/ ImgAbort
    \/ ImgEnd
    \/ \E collation \in {"locale", "codeunit"},
          holds \in {"canonical", "extra", "none"},
          done \in BOOLEAN, wrote \in BOOLEAN, removed \in BOOLEAN :
          ImgExtract(collation, holds, done, wrote, removed)
    \/ \E first \in {"canonical", "extra"}, removed \in BOOLEAN :
          ImgVerify(first, removed)

ImageInitState ==
    /\ dl = ImgIdle
    /\ disk = Disk("absent", "absent", FALSE, {})
    /\ progress = NoSnapshot

----------------------------------------------------------------------------
Init ==
    /\ QmpInitState /\ TermInitState /\ VmInitState /\ HealthInitState
    /\ ImageInitState

\* The control-channel client, one session.
SpecQMP == Init /\ [][QmpSessionNext]_vars

\* The control-channel client, dialling.
SpecQMPDial == Init /\ [][QmpDialNext]_vars

\* The console client, one session with one autoLogin().
SpecTerminal == Init /\ [][TermSessionNext]_vars

\* The supervisor with both clients, one start().
SpecVM == Init /\ [][VmNext]_vars

\* SpecVM with the scheduling the event loop gives: a timer that is armed
\* fires, and a start() whose awaited promise has settled goes on. Nothing
\* is assumed of the process, which may never exit.
SpecVMStop ==
    /\ Init /\ [][VmNext]_vars
    /\ WF_vars(~Continuation /\ \E s \in 1..MaxStops : StopGracefulTimeout(s))
    /\ WF_vars(~Continuation /\ \E s \in 1..MaxStops : StopForceTimeout(s))
    /\ WF_vars(\E i \in 1..MaxStarts : StartQmpDone(i))
    /\ WF_vars(\E i \in 1..MaxStarts : StartSerialDone(i))
    /\ WF_vars(\E i \in 1..MaxStarts : StartLoginDone(i))

\* The supervisor and the processes, overlapping calls.
SpecVMProc == Init /\ [][VmProcNext]_vars

\* The guest-health wait.
SpecHealth == Init /\ [][HealthNext]_vars

\* The image pipeline, one call.
SpecImage == Init /\ [][ImageNext]_vars

----------------------------------------------------------------------------
(***************************************************************************)
(* The claims.                                                             *)
(***************************************************************************)

\* C1: every execute() call of the control-channel client resolves or
\* rejects exactly once: never twice, at the latest when its 10 s timer has
\* run, and once the channel is closed the call is settled and has no slot
\* left in the pending table. (SpecQMP)
C1_ExecuteSettlesOnce ==
    \A c \in 1..Len(calls) :
        /\ calls[c].settles <= 1
        /\ calls[c].timer = "fired" => calls[c].settles = 1
        /\ (qmp.socket \in {"null", "closed"} /\ ~qconn.closeQueued)
              => (c \notin qmp.pendingCommands /\ calls[c].settles = 1)

\* C2: autoLogin reaches Ready if and only if the guest has presented, in
\* order, a login prompt, a password prompt and a shell prompt, however the
\* output is cut into chunks: it is never Ready (nor resolved) with fewer,
\* and once the three are presented and every chunk has been read on a live
\* connection, the automation has matched all three (state configuring, or
\* ready after its two timers). (SpecTerminal)
C2_ReadyIffPromptsInOrder ==
    /\ terminal.loginState = "ready" => thist.presented = 3
    /\ login.promise = "resolved" => thist.presented = 3
    /\ (/\ thist.presented = 3
        /\ tIn = <<>>
        /\ login.promise \in {"pending", "resolved"}
        /\ terminal.connected /\ tconn.handlers /\ ~tconn.closeQueued)
          => terminal.loginState \in {"configuring", "ready"}

\* C3: a Supervisor owns at most one hypervisor process at any time: no two
\* processes it spawned are alive together (a process it has force-killed
\* aside), whatever the interleaving of start() calls. (SpecVMProc)
C3_AtMostOneProcess ==
    Cardinality({p \in 1..Len(procs) :
                    procs[p].state = "running" /\ ~procs[p].sigkill}) <= 1

\* C4: a start() that failed after it spawned the process (immediate exit,
\* control-channel connect exhausted, console connect exhausted, login
\* aborted) leaves the Supervisor Stopped: running flag false, both ports
\* released. (SpecVM)
C4_FailedStartIsStopped ==
    \A i \in 1..Len(starts) :
        starts[i].pc \in {"ImmediateExit", "QmpConnectExhausted",
                          "SerialConnectExhausted", "LoginAborted"}
            => ~vm.isRunning /\ vm.serialPort = 0 /\ vm.qmpPort = 0

\* C5: for every stop() of a running VM: if the control channel was ready
\* the power-down command was issued, and while that command has failed and
\* the process lives the stop() is still pending with a timer armed; the
\* termination signal was sent only while the process being stopped had not
\* exited; the force-kill was sent only after a termination signal of the
\* same stop() and only while that process had not exited. (SpecVMProc)
C5_EscalationLadder ==
    \A s \in 1..Len(stops) :
        LET st == stops[s] IN
        /\ st.wasReady =>
              /\ st.powerdown \in 1..Len(calls)
              /\ calls[st.powerdown].cmd = "system_powerdown"
        /\ (/\ st.powerdown # 0
            /\ calls[st.powerdown].outcome \in {"error", "timeout", "closed"}
            /\ procs[st.proc].state = "running"
            /\ ~st.sigkill)
              => st.resolves = 0 /\ (st.gracefulTimeout \/ st.forceTimeout)
        /\ st.sigterm => ~st.termLate
        /\ st.sigkill => st.sigterm /\ ~st.killLate

\* C6: once the process a stop() is stopping has exited, no escalation
\* timer of that stop() is armed and that stop() has sent no signal after
\* the exit. (SpecVMProc)
C6_ExitDisarmsTimers ==
    \A s \in 1..Len(stops) :
        procs[stops[s].proc].state = "exited"
            => /\ ~stops[s].gracefulTimeout
               /\ ~stops[s].forceTimeout
               /\ ~stops[s].termLate
               /\ ~stops[s].killLate

\* C7: in the state in which a stop() resolves, the control channel is not
\* ready, the console is not connected, not logged in and Idle, and the
\* status snapshot reports not running, no process id, no ports and console
\* not ready. (SpecVM)
C7_StopLeavesStopped ==
    [][\A s \in 1..Len(stops) :
          (stops[s].resolves = 0 /\ stops'[s].resolves > 0)
              => /\ ~qmp'.ready
                 /\ ~terminal'.connected
                 /\ ~terminal'.loggedIn
                 /\ terminal'.loginState = "idle"
                 /\ GetStatus' = [isRunning |-> FALSE, pid |-> 0,
                                  serialPort |-> 0, qmpPort |-> 0,
                                  terminalReady |-> FALSE]]_vars

\* C8: after any sequence of console chunks of any sizes, the buffer of the
\* login automation is no longer than its cap of 4096 characters.
\* (SpecTerminal)
C8_BufferWithinCap == StrLen(login.buffer) <= BufCap

\* C8, witness: a chunk took the buffer over the cap and it was cut to its
\* last 2048 characters.
C8_BufferWasCut == login.listening /\ StrLen(login.buffer) = BufKeep

\* C9: every process is spawned with a control port above its console port,
\* so the two ports of one VM start never collide. (SpecVMProc)
C9_ControlPortAboveConsolePort ==
    \A p \in 1..Len(procs) : procs[p].qmpPort > procs[p].serialPort

\* C10: on a connection on which the greeting and then an unkeyed success
\* record were received, the ready branch ran exactly once ('ready' emitted
\* once, connect() resolved by one onReady call), and the ready flag is true
\* for as long as the connection is up. (SpecQMPDial)
C10_NegotiatedOncePerConnection ==
    qhist.acks >= 1 =>
        /\ qhist.readyEmits = 1
        /\ qhist.onReadyCalls = 1
        /\ qcall.tryP = "resolved"
        /\ qcall.connectP = "resolved"
        /\ (qmp.socket = "open" /\ ~qconn.closeQueued) => qmp.ready

\* C10, witness: a second unkeyed success record arrived on a negotiated
\* connection, which is ready.
C10_SecondSuccessRecord ==
    qhist.acks >= 2 /\ qmp.ready /\ qcall.connectP = "resolved"

\* C11: on a control-channel connection the first line the client writes is
\* the capabilities request, and the ready flag is set only after the
\* greeting was received and that request written, whatever the server
\* sends. (SpecQMP)
C11_GreetingBeforeAnythingElse ==
    /\ qOut # <<>> => qOut[1] = "qmp_capabilities"
    /\ qmp.ready => (qhist.greeted /\ qconn.greeted)

\* C12: an execute() made while the ready flag is false throws NotReady and
\* changes nothing else: nothing is written, the command-id counter and the
\* pending table stay as they are and no call is created. (SpecQMP)
C12_NotReadyHasNoEffect ==
    [][(~qmp.ready /\ QExecute)
          => /\ qhist'.notReady
             /\ qOut' = qOut
             /\ qmp' = qmp
             /\ calls' = calls]_vars

\* C12, witness: execute() was refused on a client whose connection has
\* closed after it had issued a command.
C12_RefusedAfterClose ==
    /\ qhist.notReady /\ ~qmp.ready
    /\ qmp.socket \in {"closed", "null"}
    /\ qmp.commandId >= 1
    /\ qmp.pendingCommands = {}

\* C13: when the 10 s timer of an execute() runs and the call has not been
\* settled, the call is rejected with the timeout error and has no slot in
\* the pending table afterwards; when the call was settled before, the timer
\* settles nothing and leaves the pending table and every other call as
\* they are. (SpecQMP)
C13_TimeoutRejectsOnce ==
    [][\A c \in 1..Len(calls) :
          QCmdTimeout(c) =>
              IF calls[c].settles = 0
              THEN /\ calls'[c].outcome = "timeout"
                   /\ calls'[c].settles = 1
                   /\ qmp'.pendingCommands = qmp.pendingCommands \ {c}
              ELSE /\ calls' = [calls EXCEPT ![c].timer = "fired"]
                   /\ qmp'.pendingCommands = qmp.pendingCommands]_vars

\* C14: the ids of the execute() calls strictly increase in the order of
\* the calls and none exceeds the counter, so no id is issued twice; a call
\* is resolved (or rejected with the server's error) only in a step that
\* reads a response carrying its id, and a response read for an id in the
\* pending table settles the call with that id, in whatever order the
\* responses to concurrent calls arrive. (SpecQMP)
C14_IdsDistinctResponsesMatched ==
    [][/\ \A c, d \in 1..Len(calls') :
            c < d => calls'[c].id < calls'[d].id
       /\ \A c \in 1..Len(calls') : calls'[c].id \in 1..qmp'.commandId
       /\ qmp'.commandId >= qmp.commandId
       /\ \A c \in 1..Len(calls) :
            (calls[c].outcome = "pending"
                /\ calls'[c].outcome \in {"resolved", "error"})
              => \E j \in 1..(Len(qIn) - Len(qIn')) :
                    /\ qIn[j].id = calls[c].id
                    /\ qIn[j].t = IF calls'[c].outcome = "resolved"
                                  THEN "return" ELSE "error"
       /\ \A k \in 0..Len(qIn), frag \in BOOLEAN :
            QOnData(k, frag) =>
                \A j \in 1..k :
                    (qIn[j].t \in {"return", "error"}
                        /\ qIn[j].id \in qmp.pendingCommands)
                      => \E c \in 1..Len(calls) :
                            /\ calls[c].id = qIn[j].id
                            /\ calls[c].settles = 0
                            /\ calls'[c].settles = 1]_vars

\* C14, witness: of two concurrent calls the second was answered first.
C14_AnsweredOutOfOrder ==
    /\ Len(calls) >= 2
    /\ calls[1].outcome = "pending"
    /\ calls[2].outcome = "resolved"
    /\ qmp.pendingCommands = {calls[1].id}

\* C15: when the 'close' handler of the control socket runs, every call
\* not settled by then is rejected with ChannelClosed, and afterwards the
\* pending table is empty and the ready flag is false. (SpecQMP)
C15_CloseRejectsPending ==
    [][QOnClose =>
          /\ \A c \in 1..Len(calls) :
                calls[c].settles = 0
                  => (calls'[c].outcome = "closed" /\ calls'[c].settles = 1)
          /\ qmp'.pendingCommands = {}
          /\ ~qmp'.ready]_vars

\* C16: disconnect() of the control-channel client rejects every call not
\* settled by then, and leaves the pending table empty and the ready flag
\* false. (SpecQMP)
C16_DisconnectRejectsPending ==
    [][QDisconnect =>
          /\ \A c \in 1..Len(calls) :
                calls[c].settles = 0
                  => /\ calls'[c].settles = 1
                     /\ calls'[c].outcome \in {"closed", "error", "timeout"}
          /\ qmp'.pendingCommands = {}
          /\ ~qmp'.ready]_vars

\* C17: once the console connection has closed, no autoLogin() is pending:
\* one that had not reached Ready when the 'close' handler ran was rejected
\* with LoginAborted. (SpecTerminal)
C17_CloseAbortsLogin ==
    (/\ tconn.id >= 1
     /\ ~tconn.handlers /\ ~tconn.closeQueued
     /\ terminal.socket \in {"closed", "null"})
        => login.promise # "pending"

\* C17, witness: the connection closed while autoLogin() was Configuring,
\* and autoLogin() was rejected.
C17_AbortedWhileConfiguring ==
    /\ login.promise = "rejected"
    /\ terminal.socket = "closed"
    /\ thist.status # <<>>
    /\ thist.status[Len(thist.status)] = "configuring"

\* C18: the console login state changes only by advancing one step along
\* Idle, WaitingLogin, WaitingPassword, WaitingShell, Configuring, Ready,
\* or by a socket close or disconnect() setting it to Idle; it leaves Idle
\* only by a call of autoLogin(). (SpecTerminal)
C18_LoginStateStepwise ==
    [][terminal'.loginState # terminal.loginState =>
          LET order == <<"idle", "waiting_login", "waiting_password",
                         "waiting_shell", "configuring", "ready">>
              at(s) == CHOOSE n \in 1..Len(order) : order[n] = s
          IN \/ /\ at(terminal'.loginState) = at(terminal.loginState) + 1
                /\ terminal.loginState = "idle" => TAutoLogin
             \/ /\ terminal'.loginState = "idle"
                /\ TOnClose \/ TDisconnect]_vars

\* C19: while autoLogin waits for a trigger, a chunk that completes the
\* trigger in the text received since the previous match (what is kept of
\* it followed by the chunk) is detected, whatever the size of the chunk and
\* wherever the text was cut: the login state advances. (SpecTerminal)
C19_TriggerNeverMissed ==
    [][\A k \in 1..Len(tIn) :
          LET received == Concat(login.buffer, SubSeq(tIn, 1, k))
              awaited ==
                  IF terminal.loginState = "waiting_login"
                  THEN {LoginPrompt}
                  ELSE IF terminal.loginState = "waiting_password"
                  THEN {PasswordPrompt}
                  ELSE IF terminal.loginState = "waiting_shell"
                  THEN ShellPrompts
                  ELSE {}
          IN (/\ TOnData(k)
              /\ login.listening
              /\ \E t \in awaited : Includes(received, t))
                 => terminal'.loginState # terminal.loginState]_vars

\* C20: a start() call runs its stages in sequence, each begun only when
\* the one before has completed: nothing is spawned or dialled during the
\* port scan; the control channel is not dialled before the grace period is
\* over; the console is not dialled before the control-channel connect has
\* succeeded; autoLogin() is not called before the console connect has
\* succeeded; and start() returns true only when autoLogin() has resolved,
\* which it does on reaching Ready. (SpecVM)
C20_StagesInSequence ==
    \A i \in 1..Len(starts) :
        LET pc == starts[i].pc
            scanned == starts[i].proc # 0
            qDialled == qconn.id >= 1
            qDone == qcall.connectP = "resolved"
            tDialled == tconn.id >= 1
            tDone == tcall.connectP = "resolved"
            lCalled == login.promise # "none"
            lDone == /\ login.promise = "resolved"
                     /\ thist.status # <<>>
                     /\ thist.status[Len(thist.status)] = "ready"
        IN /\ pc \in {"port1", "port2", "NoFreePort", "AlreadyRunning",
                      "ImageMissing"}
                => ~scanned /\ procs = <<>> /\ ~qDialled /\ ~tDialled /\ ~lCalled
           /\ pc \in {"grace", "ImmediateExit"}
                => scanned /\ ~qDialled /\ ~tDialled /\ ~lCalled
           /\ pc \in {"qmp", "QmpConnectExhausted"}
                => scanned /\ qDialled /\ ~tDialled /\ ~lCalled
           /\ pc \in {"serial", "SerialConnectExhausted"}
                => scanned /\ qDone /\ tDialled /\ ~lCalled
           /\ pc \in {"login", "LoginAborted"}
                => scanned /\ qDone /\ tDone /\ lCalled
           /\ pc = "LoginAborted" => login.promise = "rejected"
           /\ pc = "ok" => scanned /\ qDone /\ tDone /\ lDone

\* C20, witness: start() has returned true with the process running, the
\* control channel ready and the console Ready.
C20_StartedThroughAllStages ==
    /\ Len(starts) = 1 /\ starts[1].pc = "ok"
    /\ vm.isRunning /\ procs[starts[1].proc].state = "running"
    /\ qmp.ready
    /\ terminal.loggedIn /\ terminal.loginState = "ready"

\* C21: a start() call made while not running and with no boot image at
\* the expected path fails with ImageMissing and changes nothing: the
\* Supervisor fields (ports, process, running flag), the processes, the
\* stop() calls and both clients are as before, and the call takes no
\* further step (no port scan, no spawn, no grace period). (SpecVM)
C21_ImageMissingChangesNothing ==
    [][/\ (StartCall(FALSE) /\ ~vm.isRunning)
            => /\ starts'[Len(starts')].pc = "ImageMissing"
               /\ UNCHANGED <<vm, procs, stops, qmpVars, termVars>>
       /\ \A i \in 1..Len(starts) :
            starts[i].pc = "ImageMissing"
                => starts'[i] = starts[i]]_vars

\* C21, witness: a start() has failed with ImageMissing; nothing is
\* allocated, spawned or running.
C21_RefusedForMissingImage ==
    /\ Len(starts) = 1 /\ starts[1].pc = "ImageMissing"
    /\ vm = VmInit /\ procs = <<>>

\* C22: when the grace period of a start() call ends and the process that
\* call spawned has exited or failed to spawn, the call fails with
\* ImmediateExit without dialling the control channel or the console, and
\* the Supervisor is then not running and holds no ports. (SpecVMProc)
C22_ImmediateExitOnDeadProcess ==
    [][\A i \in 1..Len(starts) :
          (StartGrace(i) /\ procs[starts[i].proc].state # "running")
              => /\ starts'[i].pc = "ImmediateExit"
                 /\ UNCHANGED <<qmpVars, termVars>>
                 /\ ~vm'.isRunning
                 /\ vm'.serialPort = 0 /\ vm'.qmpPort = 0]_vars

\* C23: a stop() call made while the Supervisor is not running returns at
\* once: it arms no timer and registers no listener (no stop() record),
\* sends no command and no signal, and leaves the Supervisor fields, the
\* processes, the start() calls and both clients as they were. (SpecVM)
C23_StopWhenStoppedIsNoop ==
    [][((stopReturns' # stopReturns \/ Len(stops') > Len(stops))
            /\ ~vm.isRunning)
          => /\ stopReturns' = stopReturns + 1
             /\ UNCHANGED <<vm, procs, starts, stops, qmpVars, termVars>>]_vars

\* C23, witness: stop() has returned at the running check after the
\* process of an earlier start() had exited.
C23_StopAfterExitReturned ==
    /\ stopReturns = 1 /\ stops = <<>>
    /\ procs # <<>> /\ procs[1].state = "exited"
    /\ ~vm.isRunning /\ vm.vmProcess = 1

\* C24: connect() of the control-channel client makes at most `retries`
\* attempts; it has resolved only if the connection was established and
\* negotiated, it has rejected only after exactly `retries` failed
\* attempts, and an attempt whose connection has ended has failed, so that
\* connect() goes on to its next attempt or rejects. (SpecQMPDial)
C24_ConnectSettlesByAttempts ==
    /\ qcall.attempt <= qcall.retries
    /\ qcall.connectP = "resolved"
          => qcall.tryP = "resolved" /\ qhist.onReadyCalls >= 1
    /\ qcall.connectP = "rejected"
          => qcall.tryP = "rejected" /\ qcall.attempt = qcall.retries
    /\ (/\ qcall.connectP = "pending"
        /\ qmp.socket = "closed" /\ ~qconn.closeQueued)
          => qcall.tryP = "rejected"

\* C25: waitForOpenClaw() resolves on the first poll answered with a
\* success status (2xx) whose body does not say otherwise, and stops the
\* interval; a poll that ends in a connection error, a request timeout or
\* any other status changes nothing and polling goes on; the interval
\* callback that finds the timeout passed rejects; once settled, the
\* promise keeps its outcome and no further poll is started. (SpecHealth)
C25_WaitSettlesOnFirstHealthyPoll ==
    [][/\ Len(health'.answers) = Len(health.answers) + 1
            => LET o == health'.last
                   success == o.kind = "response" /\ o.status \in 200..299
               IN IF success /\ o.body # "healthyFalse"
                  THEN /\ health.promise = "pending"
                           => health'.promise = "resolved"
                       /\ ~health'.interval
                  ELSE ~success
                           => /\ health'.promise = health.promise
                              /\ health'.interval = health.interval
       /\ (/\ health'.ticks = health.ticks + 1
           /\ health'.ticks > health.timeout
           /\ health.promise = "pending")
            => health'.promise = "rejected"
       /\ health.promise \in {"resolved", "rejected"}
            => /\ health'.promise = health.promise
               /\ ~health'.interval
               /\ health'.started = health.started]_vars

\* C26: the parts are downloaded in ascending order of their names,
\* whatever the order the release lists them in, and the files that the
\* extraction concatenates are those parts in that same order. (SpecImage)
C26_PartsInNameOrder ==
    /\ \A i, j \in 1..Len(dl.downloads) :
          i < j => LocaleCompare(dl.downloads[i], dl.downloads[j]) < 0
    /\ dl.pc = "extract"
          => dl.downloads = [i \in 1..Len(dl.parts) |-> dl.parts[i].name]
    /\ dl.concat # <<>> => dl.concat = dl.downloads

\* C27: when the selected release has a whole-image asset and no split
\* parts, a call that returns has written the download to the standard
\* image name, has neither created nor touched a scratch directory, has
\* run no extraction, and the last snapshot it reported has percent 100;
\* while that download runs, it is the only one and nothing is staged.
C27_WholeImageGoesStraightToCanonical ==
    (dl.direct # NoAsset /\ GetSplitAssets(dl.release) = <<>>) =>
        /\ dl.pc \in {"direct", "ok", "failed"}
        /\ dl.downloads = <<dl.direct.name>>
        /\ dl.parts = <<>> /\ dl.concat = <<>> /\ dl.removals = 0
        /\ disk.temp = dl.before.temp
        /\ disk.tempFiles = dl.before.tempFiles
        /\ disk.extra = dl.before.extra
        /\ dl.pc = "ok" =>
              /\ disk.canonical = "new"
              /\ dl.imagePath = "canonical"
              /\ progress.percent = 100
              /\ progress.downloaded = dl.direct.size
              /\ progress.n >= 2

\* C27 witness: a whole image of two chunks was downloaded over an old
\* image, with no scratch directory before or after.
C27_WholeImageDownloaded ==
    /\ dl.pc = "ok" /\ dl.direct # NoAsset
    /\ GetSplitAssets(dl.release) = <<>>
    /\ dl.received = dl.direct.size /\ dl.received >= 2
    /\ dl.before.canonical = "old" /\ disk.canonical = "new"
    /\ ~disk.temp /\ progress.percent = 100

\* C28: once the list has been read, the release the pipeline works on is
\* the first one of the list whose tag starts with the VM-image prefix,
\* whatever precedes it; the call fails with NoImageRelease exactly when no
\* release of the list has the prefix, and with NoImageAssets exactly when
\* the selected release has neither a .qcow2 asset nor split parts; in both
\* cases the directory is as before the call, nothing was downloaded and no
\* snapshot was reported.
C28_FirstVmTaggedReleaseSelected ==
    LET IsVm(i) == /\ dl.releases[i].tag # <<>>
                   /\ Len(dl.releases[i].tag) >= 3
                   /\ SubSeq(dl.releases[i].tag, 1, 3) = <<"v", "m", "-">>
        tagged == {i \in 1..Len(dl.releases) : IsVm(i)}
        listed == dl.pc \notin {"idle", "listing"} /\ dl.error # "ListFailed"
        bare == /\ \A k \in 1..Len(dl.release.assets) :
                      ~IsSplitPart(dl.release.assets[k].name)
                /\ \A k \in 1..Len(dl.release.assets) :
                      ~EndsWith(dl.release.assets[k].name,
                                <<".", "q", "c", "o", "w", "2">>)
        nothingDone == /\ dl.pc = "failed"
                       /\ disk = dl.before
                       /\ dl.downloads = <<>>
                       /\ progress = NoSnapshot
                       /\ dl.removals = 0
    IN listed =>
        /\ tagged = {} <=> dl.error = "NoImageRelease"
        /\ tagged = {} => dl.release = NoRelease /\ nothingDone
        /\ tagged # {} =>
              /\ \E i \in tagged : /\ dl.release = dl.releases[i]
                                   /\ \A j \in 1..(i - 1) : j \notin tagged
              /\ bare <=> dl.error = "NoImageAssets"
              /\ bare => nothingDone
              /\ ~bare => dl.downloads # <<>>

\* C28 witness: the list begins with a release without a tag and an
\* application release; the VM-image release after them was selected and
\* its download has begun.
C28_SkippedApplicationReleases ==
    /\ Len(dl.releases) >= 3
    /\ dl.releases[1].tag = <<>> /\ dl.releases[2].tag = <<"v", "1">>
    /\ dl.release = dl.releases[3]
    /\ dl.pc \in {"direct", "part"} /\ dl.received >= 1

\* C29: when the call has failed, the image files of the destination
\* directory are what they were before the call (an existing boot image
\* included), and none of them is a partly written image.
C29_FailureLeavesDestinationUntouched ==
    dl.pc = "failed" =>
        /\ disk.canonical = dl.before.canonical
        /\ disk.extra = dl.before.extra
        /\ disk.canonical # "partial" /\ disk.extra # "partial"

\* C30: in the split-part path the scratch directory exists while parts
\* are downloaded and extracted; when the call has returned it is gone,
\* removed once after the extraction; when the call has failed its removal
\* was attempted, and it is gone unless that removal did not succeed.
C30_ScratchDirectoryRemoved ==
    dl.parts # <<>> =>
        /\ dl.pc \in {"part", "extract", "verify"} =>
              disk.temp /\ dl.removals = 0
        /\ dl.pc = "ok" =>
              ~disk.temp /\ disk.tempFiles = {} /\ dl.removals = 1
        /\ dl.pc = "failed" =>
              /\ dl.removals >= 1
              /\ ~disk.temp => disk.tempFiles = {}
              /\ dl.error = "RemoveFailed" <=> dl.removals = 2

\* C30 witness: a call found a scratch directory left behind, downloaded
\* two parts into it, extracted them and returned with the directory gone.
C30_ScratchGoneAfterReturn ==
    /\ dl.pc = "ok" /\ Len(dl.parts) >= 2
    /\ Len(dl.concat) >= 2
    /\ dl.before.temp /\ ~disk.temp /\ dl.removals = 1

\* C31: when the split-part call has returned, the file at the standard
\* image name is the image the extraction has just written, and no other
\* disk-image file is left beside it.
C31_ReturnedImageIsTheExtractedOne ==
    (dl.pc = "ok" /\ dl.parts # <<>>) =>
        /\ disk.canonical = "new"
        /\ dl.imagePath = "canonical"
        /\ disk.extra # "new"

\* C32: a download whose response has ended, normally or not, has been
\* settled, so none stays pending on a closed connection; and after a
\* failed download no file is left at the path it wrote to.
C32_DownloadSettlesAndLeavesNoPartialFile ==
    LET written == IF dl.direct # NoAsset THEN disk.canonical # "absent"
                   ELSE dl.parts[dl.i].name \in disk.tempFiles
    IN /\ ~dl.aborted
       /\ (dl.pc = "failed"
             /\ dl.error \in {"DownloadHTTPError", "DownloadError"})
            => ~written

\* C33: in the split-part path every snapshot reports the bytes received
\* over all parts and the size of all parts together, and its percent is
\* 100 * downloaded / total rounded down, between 0 and 100.
C33_PercentIsFloorOfAggregate ==
    (dl.parts # <<>> /\ progress.n > 0) =>
        LET total == TotalSize(dl.parts)
        IN /\ progress.total = total
           /\ progress.downloaded \in 0..total
           /\ progress.percent \in 0..100
           /\ progress.percent = (100 * progress.downloaded) \div total

\* C34: when the 'data' handler reads one record that is a command result
\* (a return or error record) and that carries no id or an id that is not
\* in the pending table, and the record is not the unkeyed success that
\* acknowledges the negotiation, then no call is settled and the pending
\* table, the ready flag, the id counter and connect() are unchanged.
\* (SpecQMP)
C34_UnmatchedResultIsDropped ==
    [][\A frag \in BOOLEAN :
          (/\ QOnData(1, frag)
           /\ qIn[1].t \in {"return", "error"}
           /\ qIn[1].id = 0 \/ qIn[1].id \notin qmp.pendingCommands
           /\ ~(qIn[1] = Rec("return", 0) /\ ~qconn.negotiated))
            => /\ calls' = calls
               /\ qmp'.pendingCommands = qmp.pendingCommands
               /\ qmp'.ready = qmp.ready
               /\ qmp'.commandId = qmp.commandId
               /\ qcall' = qcall]_vars

C36_PeerCloseSettlesTheAttempt ==
    (qmp.socket = "closed" /\ qconn.peerClosed /\ ~qconn.closeQueued)
        => qcall.tryP # "pending"

\* C37: once connect() has resolved, a step in which the 5 s socket timeout
\* fires changes nothing of the session: the socket is not destroyed (no
\* close is queued), the ready flag stays, and what the server has sent is
\* still read. (SpecQMP)
C37_TimeoutIdleAfterConnect ==
    [][(QIdleTimeout /\ qcall.connectP = "resolved")
          => /\ UNCHANGED <<qmp, qcall, calls, qIn, qOut>>
             /\ qconn'.closeQueued = qconn.closeQueued]_vars

\* C38: whenever the logged-in flag is set or the login state is Ready, the
\* console is connected over an open socket; the ticks between a socket
\* error and the 'close' event that follows it are left aside.
\* (SpecTerminal)
C38_LoggedInImpliesConnected ==
    (terminal.loggedIn \/ terminal.loginState = "ready")
        => \/ terminal.connected /\ terminal.socket = "open"
           \/ tconn.closeQueued /\ terminal.socket = "open"

\* C39: when a process exits whose stop() has already resolved, or a timer
\* of that stop() fires, while a VM started afterwards is running, the
\* running flag, the ports and the process of the newer VM, the signals it
\* has received and both clients are unchanged. (SpecVMProc)
C39_OldCycleLeavesNewVmAlone ==
    [][\A s \in 1..Len(stops) :
          LET old == stops[s].proc
              newer == /\ stops[s].resolves >= 1
                       /\ vm.isRunning /\ vm.vmProcess > old
                       /\ procs[vm.vmProcess].state = "running"
              untouched == /\ vm' = vm
                           /\ procs'[vm.vmProcess] = procs[vm.vmProcess]
                           /\ UNCHANGED <<qmpVars, termVars>>
          IN /\ (newer /\ ProcExit(old)) => untouched
             /\ (newer /\ StopForceTimeout(s)) => untouched
             /\ (newer /\ StopGracefulTimeout(s)) => untouched]_vars

\* C40: every stop() that went past the running check is eventually
\* resolved, whether or not its process ever exits; it is resolved only
\* once its process has exited or its force-kill stage was reached, it is
\* resolved as soon as that stage is reached, and once resolved it stays
\* resolved. (SpecVMStop)
C40_StopEventuallyResolves ==
    /\ \A s \in 1..MaxStops :
          (Len(stops) >= s)
              ~> (Len(stops) >= s /\ stops[s].resolves >= 1)
    /\ [](\A s \in 1..Len(stops) :
            /\ stops[s].resolves >= 1
                 => \/ procs[stops[s].proc].state = "exited"
                    \/ stops[s].sigkill
            /\ stops[s].sigkill => stops[s].resolves >= 1)
    /\ [][\A s \in 1..Len(stops) :
            stops[s].resolves >= 1 => stops'[s].resolves >= 1]_vars

\* C40 witness: a stop() has resolved at its force-kill stage while the
\* process, signalled twice, has still not exited.
C40_ResolvedAtForceKill ==
    /\ Len(stops) = 1 /\ stops[1].resolves = 1
    /\ stops[1].sigterm /\ stops[1].sigkill
    /\ procs[stops[1].proc].state = "running"
    /\ ~vm.isRunning

====
